---- MODULE Spec2Model ----
(***************************************************************************)
(* Model of the churn-app ingestion and retrieval core:                    *)
(*   - DocumentProcessor: _extract_items_by_page, _group_items_by_section, *)
(*     _create_chunks_from_pages (services/document_processor.py)          *)
(*   - QdrantService.upsert_chunks and hybrid_search                       *)
(*     (services/qdrant_service.py) and chat_endpoint (routers/chat.py)    *)
(*   - upload_files, process_saved_files, get_job_results                  *)
(*     (routers/upload.py, services/upload_service.py)                     *)
(*   - _invoke_ollama (services/llm_service.py)                            *)
(*   - save_file_to_staging (services/file_save.py)                        *)
(* Texts are TLA+ strings; a Python dict is a function on its key set; an  *)
(* Optional value is a sequence of length at most one.                     *)
(***************************************************************************)
EXTENDS Integers, Sequences, FiniteSets, TLC

\* ------------------------------------------------------------------ bounds
MaxItems == 3   \* items one document yields through iterate_items()

\* ------------------------------------------------------ parsed input items
\* "": empty (falsy); " ": non-empty but blank under strip(); "a": plain text
Texts == {"", " ", "a"}

content_labels == {"paragraph", "text", "list_item", "caption", "footnote"}

\* one label per branch of the classifier; "picture" stands for every label
\* the classifier does not name
Labels == {"title", "section_header", "paragraph", "table", "picture"}

\* header levels (docling: 1 and up) and page numbers (1-indexed) of the input
HeaderLevels == {1, 2}
PageNumbers == {1, 2}

Provs == {<< >>} \cup {<<p>> : p \in PageNumbers}

\* A parsed item: text is what getattr(item, 'text', '') yields (for a table:
\* what _extract_table_text yields), level is the header's level attribute,
\* prov the page numbers of the provenance entries.
Items ==
  {i \in [label : Labels, text : Texts, level : HeaderLevels, prov : Provs] :
     i.label # "section_header" => i.level = 1}

\* --------------------------------------------------------------- variables
VARIABLES
  pc,                 \* "extract" | "chunk" | "done": position in process_document
  pos,                \* number of items consumed from iterate_items()
  current_hierarchy,  \* _extract_items_by_page: level -> title
  pages,              \* _extract_items_by_page: page_number -> list of item_data
  item_data,          \* the item_data built by the last loop iteration (<< >>: none)
  applied,            \* history: <<level>> of the last title/header applied, << >> if none
  doc_title,          \* history: <<text>> of the last title applied, << >> if none
  page_order,         \* _create_chunks_from_pages: pages still to visit, ascending
  page_number,        \* _create_chunks_from_pages: page being visited (0: none yet)
  sections_on_page,   \* blocks of the visited page not yet turned into chunks
  chunks,             \* _create_chunks_from_pages: chunks built so far
  chunk_index,        \* _create_chunks_from_pages: next chunk index
  script,             \* items iterate_items() still yields, when the document is given
  collection,         \* the vector store's collection: list of stored records
  hs,                 \* the last hybrid_search call: arguments, locals and return value
  chat,               \* the last chat_endpoint request: context branch and response
  up,                 \* the upsert_chunks call: arguments, locals, store writes, outcome
  job_dir,            \* whether /tmp/uploads/{job_id} exists
  saved_file_paths,   \* upload_files: paths handed to the background task
  job_pc,             \* "idle" | "scheduled" | "returned": process_saved_files
  todo,               \* process_saved_files: file paths not yet visited by the loop
  results,            \* process_saved_files: the results dict (status: << >> while unset)
  results_file,       \* <<contents>> of results.json, << >> while it does not exist
  file_result,        \* process_saved_files: <<entry>> of the file in work, else << >>
  poll,               \* the last answer of GET /job/{job_id}
  ol,                 \* the _invoke_ollama call: arguments, locals, requests, outcome
  st                  \* the save_file_to_staging call: sizes, temp and final file, outcome

docVars == <<pc, pos, current_hierarchy, pages, item_data, applied, doc_title,
             page_order, page_number, sections_on_page, chunks, chunk_index, script>>

searchVars == <<collection, hs, chat, up>>

jobVars == <<job_dir, saved_file_paths, job_pc, todo, results, results_file,
             file_result, poll>>

ioVars == <<ol, st>>

vars == <<docVars, searchVars, jobVars, ioVars>>

\* ----------------------------------------------------------------- helpers
EmptyDict == [k \in {} |-> ""]

RECURSIVE Join(_, _)
\* sep.join(parts)
Join(sep, parts) ==
  IF parts = << >> THEN ""
  ELSE IF Len(parts) = 1 THEN parts[1]
  ELSE parts[1] \o sep \o Join(sep, Tail(parts))

Digit == <<"0", "1", "2", "3", "4", "5", "6", "7", "8", "9">>

RECURSIVE ToStr(_)
\* str(n) for n >= 0
ToStr(n) == IF n < 10 THEN Digit[n + 1] ELSE ToStr(n \div 10) \o Digit[(n % 10) + 1]

RECURSIVE SortedSeq(_)
\* sorted(S) for a finite set of integers
SortedSeq(S) ==
  IF S = {} THEN << >>
  ELSE LET m == CHOOSE x \in S : \A y \in S : x <= y
       IN <<m>> \o SortedSeq(S \ {m})

\* ------------------------------------------------- _extract_items_by_page
\* Optional[int]: <<page_no>> of the first provenance entry, << >> for None
ExtractPageNumber(item) ==
  IF item.prov # << >> THEN <<item.prov[1]>> ELSE << >>

\* mutant of PageNumberOf: lines 133-134 are missing; 0 stands for the key None
PageNumberOf_NoDefault(item) ==
  LET p == ExtractPageNumber(item) IN IF p = << >> THEN 0 ELSE p[1]

\* lines 132-134: page_number, defaulting to 1
PageNumberOf(item) ==
  LET p == ExtractPageNumber(item) IN IF p = << >> THEN 1 ELSE p[1]

\* mutant of NewItemData: the snapshot is not copied into the item
NewItemData_NoSnapshot(item, h, n) ==
  [type |-> "None", text |-> "", section_hierarchy |-> EmptyDict,
   page_number |-> PageNumberOf(item), label |-> item.label,
   has_header_level |-> FALSE, header_level |-> 0, doc_pos |-> n,
   prov |-> item.prov]

\* lines 136-143: item_data before classification; doc_pos and prov are
\* history (the item's position in document order and its provenance),
\* has_header_level tells whether the "header_level" key is present
NewItemData(item, h, n) ==
  [type |-> "None", text |-> "", section_hierarchy |-> h,
   page_number |-> PageNumberOf(item), label |-> item.label,
   has_header_level |-> FALSE, header_level |-> 0, doc_pos |-> n,
   prov |-> item.prov]

\* line 149
TitleHierarchy(text) == [k \in {0} |-> text]

\* mutant of HeaderHierarchy: the deeper levels are not removed
HeaderHierarchy_KeepAll(h, header_level, text) ==
  [k \in DOMAIN h \cup {header_level} |-> IF k = header_level THEN text ELSE h[k]]

\* lines 160-163
HeaderHierarchy(h, header_level, text) ==
  [k \in {j \in DOMAIN h : j < header_level} \cup {header_level} |->
     IF k = header_level THEN text ELSE h[k]]

\* mutant of ClassifyTitle: the title is written at level 0 over the old levels
ClassifyTitle_KeepLevels(item, h, d) ==
  LET d1 == [d EXCEPT !.type = "title", !.text = item.text]
  IN IF d1.text # ""
     THEN LET h2 == [k \in DOMAIN h \cup {0} |-> IF k = 0 THEN d1.text ELSE h[k]]
          IN [hierarchy |-> h2, data |-> [d1 EXCEPT !.section_hierarchy = h2]]
     ELSE [hierarchy |-> h, data |-> d1]

\* lines 145-150: the result is the pair (current_hierarchy, item_data)
ClassifyTitle(item, h, d) ==
  LET d1 == [d EXCEPT !.type = "title", !.text = item.text]
  IN IF d1.text # ""
     THEN LET h2 == TitleHierarchy(d1.text)
          IN [hierarchy |-> h2, data |-> [d1 EXCEPT !.section_hierarchy = h2]]
     ELSE [hierarchy |-> h, data |-> d1]

\* mutant of ClassifySectionHeader: line 164 is missing, the header item keeps
\* the snapshot taken before it
ClassifySectionHeader_StaleSnapshot(item, h, d) ==
  LET d1 == [d EXCEPT !.type = "section_header", !.text = item.text,
                      !.has_header_level = TRUE, !.header_level = item.level]
  IN IF d1.text # ""
     THEN [hierarchy |-> HeaderHierarchy(h, item.level, d1.text), data |-> d1]
     ELSE [hierarchy |-> h, data |-> d1]

\* mutant of ClassifySectionHeader: the test of line 158 is missing, a header
\* with empty text is applied like any other
ClassifySectionHeader_AppliesEmpty(item, h, d) ==
  LET d1 == [d EXCEPT !.type = "section_header", !.text = item.text,
                      !.has_header_level = TRUE, !.header_level = item.level]
      h2 == HeaderHierarchy(h, item.level, d1.text)
  IN [hierarchy |-> h2, data |-> [d1 EXCEPT !.section_hierarchy = h2]]

\* lines 152-164
ClassifySectionHeader(item, h, d) ==
  LET d1 == [d EXCEPT !.type = "section_header", !.text = item.text,
                      !.has_header_level = TRUE, !.header_level = item.level]
  IN IF d1.text # ""
     THEN LET h2 == HeaderHierarchy(h, item.level, d1.text)
          IN [hierarchy |-> h2, data |-> [d1 EXCEPT !.section_hierarchy = h2]]
     ELSE [hierarchy |-> h, data |-> d1]

\* lines 166-168
ClassifyContent(item, h, d) ==
  [hierarchy |-> h, data |-> [d EXCEPT !.type = "content", !.text = item.text]]

\* lines 170-172
ClassifyTable(item, h, d) ==
  [hierarchy |-> h, data |-> [d EXCEPT !.type = "table", !.text = item.text]]

\* mutant of ClassifyOther: an item of a label the classifier does not name is
\* never given a type or a text
ClassifyOther_Dropped(item, h, d) ==
  [hierarchy |-> h, data |-> d]

\* lines 174-180
ClassifyOther(item, h, d) ==
  IF item.text # ""
  THEN [hierarchy |-> h,
        data |-> [d EXCEPT !.type = "other_content", !.text = item.text]]
  ELSE [hierarchy |-> h, data |-> d]

\* lines 145-180: the if / elif chain
Classify(item, h, d) ==
  IF item.label = "title" THEN ClassifyTitle(item, h, d)
  ELSE IF item.label = "section_header" THEN ClassifySectionHeader(item, h, d)
  ELSE IF item.label \in content_labels THEN ClassifyContent(item, h, d)
  ELSE IF item.label = "table" THEN ClassifyTable(item, h, d)
  ELSE ClassifyOther(item, h, d)

\* lines 183-184: pages[page_number].append(item_data) on a defaultdict(list)
AddToPage(pgs, d) ==
  IF d.text = "" THEN pgs
  ELSE IF d.page_number \in DOMAIN pgs
       THEN [pgs EXCEPT ![d.page_number] = Append(@, d)]
       ELSE pgs @@ (d.page_number :> <<d>>)

\* ------------------------------------------------ _group_items_by_section
\* lines 321-323
ChapterNameOf(hierarchy) ==
  IF hierarchy # EmptyDict
  THEN LET min_level == CHOOSE x \in DOMAIN hierarchy :
                          \A y \in DOMAIN hierarchy : x <= y
       IN IF 0 \in DOMAIN hierarchy THEN hierarchy[0] ELSE hierarchy[min_level]
  ELSE ""

\* lines 300-306; items is history: the positions (in the page's list) of the
\* items whose text is in content_parts
FirstSection(page_items, pn) ==
  LET first_item_hierarchy == page_items[1].section_hierarchy
  IN [hierarchy |-> first_item_hierarchy, content_parts |-> << >>, level |-> 0,
      section_name |-> "Strona " \o ToStr(pn),
      chapter_name |-> IF 0 \in DOMAIN first_item_hierarchy
                       THEN first_item_hierarchy[0] ELSE "",
      content |-> "", items |-> << >>]

\* lines 314-315 and 355-356
CloseSection(sec) == [sec EXCEPT !.content = Join("\n\n", sec.content_parts)]

\* mutant of HeaderSection: the new section does not take the header's hierarchy
HeaderSection_NoHierarchy(item, i) ==
  [hierarchy |-> EmptyDict,
   content_parts |-> IF item.text # "" THEN <<item.text>> ELSE << >>,
   level |-> IF item.has_header_level THEN item.header_level ELSE 0,
   section_name |-> item.text,
   chapter_name |-> ChapterNameOf(item.section_hierarchy),
   content |-> "",
   items |-> IF item.text # "" THEN <<i>> ELSE << >>]

\* mutant of HeaderSection: the header's text is not made the first content
\* fragment of the new section
HeaderSection_NoHeaderText(item, i) ==
  [hierarchy |-> item.section_hierarchy,
   content_parts |-> << >>,
   level |-> IF item.has_header_level THEN item.header_level ELSE 0,
   section_name |-> item.text,
   chapter_name |-> ChapterNameOf(item.section_hierarchy),
   content |-> "",
   items |-> << >>]

\* lines 318-336
HeaderSection(item, i) ==
  [hierarchy |-> item.section_hierarchy,
   content_parts |-> IF item.text # "" THEN <<item.text>> ELSE << >>,
   level |-> IF item.has_header_level THEN item.header_level ELSE 0,
   section_name |-> item.text,
   chapter_name |-> ChapterNameOf(item.section_hierarchy),
   content |-> "",
   items |-> IF item.text # "" THEN <<i>> ELSE << >>]

\* lines 340-351
AppendContent(sec, item, i) ==
  IF item.text = "" THEN sec
  ELSE LET s1 == [sec EXCEPT !.content_parts = Append(@, item.text),
                             !.items = Append(@, i)]
           s2 == IF s1.hierarchy = EmptyDict
                 THEN [s1 EXCEPT !.hierarchy = item.section_hierarchy] ELSE s1
       IN IF s2.chapter_name = "" /\ s2.hierarchy # EmptyDict
          THEN [s2 EXCEPT !.chapter_name = ChapterNameOf(s2.hierarchy)] ELSE s2

RECURSIVE GroupFrom_HeaderOnlyLost(_, _, _, _)
\* mutant of GroupFrom: at a header the current section is emitted only when
\* it holds more than one fragment, so a header-only section is lost
GroupFrom_HeaderOnlyLost(page_items, i, sections, current_section) ==
  IF i > Len(page_items)
  THEN IF current_section.content_parts # << >>
       THEN Append(sections, CloseSection(current_section)) ELSE sections
  ELSE LET item == page_items[i]
       IN IF item.type \in {"title", "section_header"}
          THEN GroupFrom_HeaderOnlyLost(page_items, i + 1,
                         IF Len(current_section.content_parts) > 1
                         THEN Append(sections, CloseSection(current_section))
                         ELSE sections,
                         HeaderSection(item, i))
          ELSE IF item.type \in {"content", "table", "other_content"}
          THEN GroupFrom_HeaderOnlyLost(page_items, i + 1, sections,
                         AppendContent(current_section, item, i))
          ELSE GroupFrom_HeaderOnlyLost(page_items, i + 1, sections, current_section)

RECURSIVE GroupFrom(_, _, _, _)
\* lines 308-356: the loop from item i on, then the last section
GroupFrom(page_items, i, sections, current_section) ==
  IF i > Len(page_items)
  THEN IF current_section.content_parts # << >>
       THEN Append(sections, CloseSection(current_section)) ELSE sections
  ELSE LET item == page_items[i]
       IN IF item.type \in {"title", "section_header"}
          THEN GroupFrom(page_items, i + 1,
                         IF current_section.content_parts # << >>
                         THEN Append(sections, CloseSection(current_section))
                         ELSE sections,
                         HeaderSection(item, i))
          ELSE IF item.type \in {"content", "table", "other_content"}
          THEN GroupFrom(page_items, i + 1, sections,
                         AppendContent(current_section, item, i))
          ELSE GroupFrom(page_items, i + 1, sections, current_section)

\* lines 291-364
GroupItemsBySection(page_items, pn) ==
  IF page_items = << >> THEN << >>
  ELSE GroupFrom(page_items, 1, << >>, FirstSection(page_items, pn))

\* ---------------------------------------------- _create_chunks_from_pages
\* mutant of BuildSectionTitle: only the deepest level's title is used
BuildSectionTitle_DeepestOnly(hierarchy) ==
  IF hierarchy = EmptyDict THEN "Dokument"
  ELSE hierarchy[CHOOSE x \in DOMAIN hierarchy : \A y \in DOMAIN hierarchy : y <= x]

\* lines 366-372
BuildSectionTitle(hierarchy) ==
  IF hierarchy = EmptyDict THEN "Dokument"
  ELSE LET sorted_levels == SortedSeq(DOMAIN hierarchy)
       IN Join(" > ", [i \in 1..Len(sorted_levels) |-> hierarchy[sorted_levels[i]]])

\* mutant of BuildParentContext: the shallowest level is excluded instead of
\* the deepest
BuildParentContext_DropsShallowest(hierarchy) ==
  IF hierarchy = EmptyDict \/ Cardinality(DOMAIN hierarchy) <= 1 THEN ""
  ELSE LET sorted_levels == SortedSeq(DOMAIN hierarchy)
           parent_levels == Tail(sorted_levels)
       IN Join(" > ", [i \in 1..Len(parent_levels) |-> hierarchy[parent_levels[i]]])

\* lines 374-382
BuildParentContext(hierarchy) ==
  IF hierarchy = EmptyDict \/ Cardinality(DOMAIN hierarchy) <= 1 THEN ""
  ELSE LET sorted_levels == SortedSeq(DOMAIN hierarchy)
           parent_levels == SubSeq(sorted_levels, 1, Len(sorted_levels) - 1)
       IN Join(" > ", [i \in 1..Len(parent_levels) |-> hierarchy[parent_levels[i]]])

\* content.strip() == "": the separators of the join are whitespace, so the
\* joined content is blank iff every fragment is
WhitespaceTexts == {"", " "}
IsBlank(sec) == \A i \in 1..Len(sec.content_parts) : sec.content_parts[i] \in WhitespaceTexts

\* what invoke_llm does inside generate_section_context: answer or raise
LlmOutcomes == {"raise", "answer"}
LlmAnswer == "kw"

\* mutant of GenerateSectionContext: the except clause returns the error's
\* text instead of the empty string
GenerateSectionContext_ErrorText(blank, outcome) ==
  IF blank THEN ""
  ELSE IF outcome = "raise" THEN "error" ELSE LlmAnswer

\* llm_service.py lines 203-231
GenerateSectionContext(blank, outcome) ==
  IF blank THEN ""
  ELSE IF outcome = "raise" THEN "" ELSE LlmAnswer

\* lines 244-248
FullContext(parent_context, section_context) ==
  (IF parent_context # "" THEN "Rozdzial nadrzedny: " \o parent_context \o "\n" ELSE "")
  \o (IF section_context # "" THEN "Kontekst sekcji: " \o section_context ELSE "")

\* lines 236-265; annotator and section_context are history: what invoke_llm
\* did for the block and the local section_context of line 241
BuildChunk(section_data, pn, index, outcome) ==
  LET section_title == BuildSectionTitle(section_data.hierarchy)
      parent_context == BuildParentContext(section_data.hierarchy)
      section_context == GenerateSectionContext(IsBlank(section_data), outcome)
  IN [content |-> section_data.content,
      section_title |-> section_title,
      chunk_index |-> index,
      annotator |-> outcome,
      section_context |-> section_context,
      metadata |-> [section_name |-> section_data.section_name,
                    chapter_name |-> section_data.chapter_name,
                    parent_context |-> parent_context,
                    section_level |-> section_data.level,
                    context |-> FullContext(parent_context, section_context),
                    page_number |-> pn,
                    page_numbers |-> <<pn>>,
                    hierarchy |-> section_data.hierarchy]]

\* ------------------------------------------------------------------ actions
DocInit ==
  /\ pc = "extract"
  /\ pos = 0
  /\ current_hierarchy = EmptyDict
  /\ pages = EmptyDict
  /\ item_data = << >>
  /\ applied = << >>
  /\ doc_title = << >>
  /\ page_order = << >>
  /\ page_number = 0
  /\ sections_on_page = << >>
  /\ chunks = << >>
  /\ chunk_index = 0
  /\ script = << >>

\* one iteration of the loop of _extract_items_by_page (lines 130-191)
ExtractStep(item) ==
  /\ pc = "extract"
  /\ LET r == Classify(item, current_hierarchy,
                       NewItemData(item, current_hierarchy, pos + 1))
         applies == item.label \in {"title", "section_header"} /\ item.text # ""
     IN /\ current_hierarchy' = r.hierarchy
        /\ item_data' = <<r.data>>
        /\ pages' = AddToPage(pages, r.data)
        /\ applied' = IF ~applies THEN applied
                      ELSE IF item.label = "title" THEN <<0>> ELSE <<item.level>>
        /\ doc_title' = IF applies /\ item.label = "title" THEN <<item.text>>
                        ELSE doc_title
  /\ pos' = pos + 1
  /\ UNCHANGED <<pc, page_order, page_number, sections_on_page, chunks, chunk_index>>
  /\ UNCHANGED <<searchVars, jobVars, ioVars>>

\* the loop body on any next item of a document of at most MaxItems items
ExtractItem ==
  /\ pos < MaxItems
  /\ script = << >>
  /\ \E item \in Items : ExtractStep(item)
  /\ UNCHANGED script

\* the loop body on the next item of a given document
ExtractScripted ==
  /\ script # << >>
  /\ ExtractStep(Head(script))
  /\ script' = Tail(script)

\* _extract_items_by_page returns dict(pages) (line 202) and
\* _create_chunks_from_pages starts (lines 222-226)
StartChunks ==
  /\ pc = "extract"
  /\ script = << >>
  /\ pc' = "chunk"
  /\ current_hierarchy' = EmptyDict
  /\ item_data' = << >>
  /\ applied' = << >>
  /\ doc_title' = << >>
  /\ page_order' = SortedSeq(DOMAIN pages)
  /\ chunks' = << >>
  /\ chunk_index' = 0
  /\ UNCHANGED <<pos, pages, page_number, sections_on_page, script>>
  /\ UNCHANGED <<searchVars, jobVars, ioVars>>

\* lines 226-230: the next page, grouped into sections
GroupPage ==
  /\ pc = "chunk"
  /\ sections_on_page = << >>
  /\ page_order # << >>
  /\ page_number' = Head(page_order)
  /\ page_order' = Tail(page_order)
  /\ sections_on_page' = GroupItemsBySection(pages[Head(page_order)], Head(page_order))
  /\ UNCHANGED <<pc, pos, current_hierarchy, pages, item_data, applied, doc_title,
                 chunks, chunk_index, script>>
  /\ UNCHANGED <<searchVars, jobVars, ioVars>>

\* mutant of ChunkSection: a section skipped for blank content consumes a
\* chunk index
ChunkSection_BlankTakesIndex ==
  /\ pc = "chunk"
  /\ sections_on_page # << >>
  /\ LET section_data == Head(sections_on_page)
     IN IF IsBlank(section_data)
        THEN chunks' = chunks /\ chunk_index' = chunk_index + 1
        ELSE \E outcome \in LlmOutcomes :
               /\ chunks' = Append(chunks,
                                   BuildChunk(section_data, page_number, chunk_index, outcome))
               /\ chunk_index' = chunk_index + 1
  /\ sections_on_page' = Tail(sections_on_page)
  /\ UNCHANGED <<pc, pos, current_hierarchy, pages, item_data, applied, doc_title,
                 page_order, page_number, script>>
  /\ UNCHANGED <<searchVars, jobVars, ioVars>>

\* lines 232-267: one iteration of the loop over the page's sections
ChunkSection ==
  /\ pc = "chunk"
  /\ sections_on_page # << >>
  /\ LET section_data == Head(sections_on_page)
     IN IF IsBlank(section_data)
        THEN UNCHANGED <<chunks, chunk_index>>
        ELSE \E outcome \in LlmOutcomes :
               /\ chunks' = Append(chunks,
                                   BuildChunk(section_data, page_number, chunk_index, outcome))
               /\ chunk_index' = chunk_index + 1
  /\ sections_on_page' = Tail(sections_on_page)
  /\ UNCHANGED <<pc, pos, current_hierarchy, pages, item_data, applied, doc_title,
                 page_order, page_number, script>>
  /\ UNCHANGED <<searchVars, jobVars, ioVars>>

\* line 274: return chunks
FinishChunks ==
  /\ pc = "chunk"
  /\ sections_on_page = << >>
  /\ page_order = << >>
  /\ pc' = "done"
  /\ UNCHANGED <<pos, current_hierarchy, pages, item_data, applied, doc_title,
                 page_order, page_number, sections_on_page, chunks, chunk_index, script>>
  /\ UNCHANGED <<searchVars, jobVars, ioVars>>

\* ----------------------------------------------------------- upsert_chunks
MaxUpChunks == 2   \* chunks handed to one upsert_chunks call
MaxCalls == 2      \* upsert_chunks calls made with the same chunks

\* A chunk handed to upsert_chunks: content, section title, metadata context
\* and filename;
\* malformed: the content is not a string, so that content.strip() raises
\* inside generate_keywords (llm_service.py line 164, outside its try)
ChunkKinds ==
  [content : {" ", "a"}, section_title : {"S"}, context : {"", "c"},
   filename : {"", "f.pdf"}, malformed : BOOLEAN]

ChunkLists == UNION {[1..n -> ChunkKinds] : n \in 0..MaxUpChunks}

\* llm_service.py lines 164-189: the answer of the model is one keyword that
\* names the text it was asked about
GenerateKeywords(content, outcome) ==
  IF content \in WhitespaceTexts THEN << >>
  ELSE IF outcome = "raise" THEN << >> ELSE <<"kw(" \o content \o ")">>

\* lines 89-92
CombinedContent(context, content) ==
  IF context # "" THEN "Context: " \o context \o "\n\nContent: " \o content
  ELSE content

\* mutant of PrepareChunkData: the keywords are generated from the
\* context-prefixed text
PrepareChunkData_KeywordsOfCombined(job_id, chunk, outcome) ==
  LET combined_content == CombinedContent(chunk.context, chunk.content)
      keywords == GenerateKeywords(combined_content, outcome)
      file_id == IF chunk.filename # "" THEN job_id \o "_" \o chunk.filename ELSE job_id
  IN [document |-> combined_content,
      meta |-> [context |-> chunk.context, job_id |-> job_id, file_id |-> file_id,
                section |-> chunk.section_title,
                file_name |-> chunk.filename, keywords |-> keywords]]

\* lines 69-114: what one iteration appends to documents and metadata
PrepareChunkData(job_id, chunk, outcome) ==
  LET combined_content == CombinedContent(chunk.context, chunk.content)
      keywords == GenerateKeywords(chunk.content, outcome)
      file_id == IF chunk.filename # "" THEN job_id \o "_" \o chunk.filename ELSE job_id
  IN [document |-> combined_content,
      meta |-> [context |-> chunk.context, job_id |-> job_id, file_id |-> file_id,
                section |-> chunk.section_title,
                file_name |-> chunk.filename, keywords |-> keywords]]

\* the collection's points: id -> record
NoPoints == [id \in {} |-> [document |-> "", metadata |-> << >>]]

\* mutant of NewId: the id of a record is made from the chunk's position
NewId_FromIndex(issued, chunk_idx) == chunk_idx + 1

\* line 114, str(uuid4()): an id no earlier uuid4() call has returned (the
\* ids are numbered in the order they are issued)
NewId(issued, chunk_idx) == issued + 1

\* client.add: the first n records of the batch are upserted by id
AddPoints(points, ids, documents, metadata, n) ==
  [id \in DOMAIN points \cup {ids[k] : k \in 1..n} |->
     IF \E k \in 1..n : ids[k] = id
     THEN LET k == CHOOSE j \in 1..n :
                     ids[j] = id /\ \A i \in 1..n : ids[i] = id => i <= j
          IN [document |-> documents[k], metadata |-> metadata[k]]
     ELSE points[id]]

\* lines 61-68: the call's state at the start of the loop. outcomes, adds,
\* stored and failed are history: what the keyword model did per chunk, the
\* arguments of every client.add call, the documents the store kept, and
\* whether anything raised inside the try. issued counts the uuid4() calls
\* made so far, points is the collection, earlier the collection as the call
\* found it, calls the number of calls made.
UpStart(job_id, chunk_list) ==
  [pc |-> "preparing", job_id |-> job_id, chunks |-> chunk_list, chunk_idx |-> 0,
   documents |-> << >>, metadata |-> << >>, ids |-> << >>, outcomes |-> << >>,
   adds |-> << >>, stored |-> << >>, failed |-> FALSE, error |-> << >>,
   issued |-> 0, points |-> NoPoints, earlier |-> NoPoints, calls |-> 1]

\* no call of upsert_chunks is in progress
UpIdle == [UpStart("", << >>) EXCEPT !.pc = "idle", !.calls = 0]

\* mutant of UpsertExcept: the error is logged and the call returns normally
UpsertExcept_Swallow(u, e) ==
  [u EXCEPT !.pc = "returned", !.failed = TRUE, !.error = << >>]

\* lines 130-132: the error is logged and re-raised as it is; the exception
\* e names where it was raised and carries no count of chunks (count: << >>)
UpsertExcept(u, e) ==
  [u EXCEPT !.pc = "raised", !.failed = TRUE,
            !.error = <<[source |-> e, count |-> << >>]>>]

\* lines 61-68: the call; an empty list returns at once, without a write
UpsertChunks ==
  /\ up.pc = "idle"
  /\ \E chunk_list \in ChunkLists :
       up' = IF chunk_list = << >>
             THEN [UpStart("job", chunk_list) EXCEPT !.pc = "returned"]
             ELSE UpStart("job", chunk_list)
  /\ UNCHANGED <<collection, hs, chat, docVars, jobVars, ioVars>>

\* lines 69-117: one iteration of the loop over the chunks
PrepareChunk ==
  /\ up.pc = "preparing"
  /\ up.chunk_idx < Len(up.chunks)
  /\ LET chunk == up.chunks[up.chunk_idx + 1]
     IN IF chunk.malformed
        THEN up' = UpsertExcept(up, "generate_keywords")
        ELSE \E outcome \in LlmOutcomes :
               LET prepared == PrepareChunkData(up.job_id, chunk, outcome)
               IN up' = [up EXCEPT !.chunk_idx = @ + 1,
                                   !.documents = Append(@, prepared.document),
                                   !.metadata = Append(@, prepared.meta),
                                   !.ids = Append(@, NewId(up.issued, up.chunk_idx)),
                                   !.issued = @ + 1,
                                   !.outcomes = Append(@, outcome)]
  /\ UNCHANGED <<collection, hs, chat, docVars, jobVars, ioVars>>

\* lines 121-128: client.add after the loop; when it raises, the store has
\* kept some leading part of the batch, possibly none
ClientAdd ==
  /\ up.pc = "preparing"
  /\ up.chunk_idx = Len(up.chunks)
  /\ LET called == [up EXCEPT !.adds = Append(@, [documents |-> up.documents,
                                                  metadata |-> up.metadata,
                                                  ids |-> up.ids])]
         kept_points(n) == AddPoints(up.points, up.ids, up.documents, up.metadata, n)
     IN \/ up' = [called EXCEPT !.pc = "returned", !.stored = up.documents,
                                !.points = kept_points(Len(up.ids))]
        \/ \E kept \in 0..(Len(up.documents) - 1) :
             up' = UpsertExcept([called EXCEPT !.stored = SubSeq(up.documents, 1, kept),
                                              !.points = kept_points(kept)],
                                "client.add")
  /\ UNCHANGED <<collection, hs, chat, docVars, jobVars, ioVars>>

\* upsert_chunks is called again with the same chunks (the file is
\* reprocessed); the collection and the ids already issued stay
UpsertAgain ==
  /\ up.pc \in {"returned", "raised"}
  /\ up.calls < MaxCalls
  /\ up' = [UpStart(up.job_id, up.chunks) EXCEPT
              !.pc = IF up.chunks = << >> THEN "returned" ELSE "preparing",
              !.issued = up.issued, !.points = up.points,
              !.earlier = up.points, !.calls = up.calls + 1]
  /\ UNCHANGED <<collection, hs, chat, docVars, jobVars, ioVars>>

\* ------------------------------------- _invoke_ollama (services/llm_service.py)
MaxRetries == 2   \* largest value of the retries argument (its default)

Retries == 0..MaxRetries

\* what one requests.post(...) / raise_for_status() / response.json() ends in:
\* "ok" with the message content, or the exception class that is caught
FailureKinds == {"connection", "timeout", "http", "other"}

Responses ==
  [kind : {"ok"}, content : Texts] \cup [kind : FailureKinds, content : {""}]

\* content.strip()
StripContent(content) == IF content \in WhitespaceTexts THEN "" ELSE content

\* the message stored in last_error; only the timeout message names the attempt
LastError(kind, attempt) ==
  [kind |-> kind, attempt |-> IF kind = "timeout" THEN attempt + 1 ELSE 0]

Breaks_Never(kind) == FALSE

\* the except clause that leaves the loop
Breaks(kind) == kind = "http"

\* the locals at the top of the loop
OllamaStart(retries) ==
  [pc |-> "loop", retries |-> retries, attempt |-> 0, requests |-> 0,
   last_error |-> << >>, outcomes |-> << >>, sleeps |-> 0,
   result |-> << >>, error |-> << >>]

OlIdle == [OllamaStart(0) EXCEPT !.pc = "idle"]

\* the except clauses and what follows them: break, sleep and go round, or
\* fall out of the loop into raise Exception(last_error)
AfterFailure(o, kind) ==
  LET e == <<LastError(kind, o.attempt)>>
  IN IF Breaks(kind) \/ o.attempt >= o.retries
       THEN [o EXCEPT !.pc = "raised", !.last_error = e, !.error = e]
       ELSE [o EXCEPT !.last_error = e, !.sleeps = @ + 1, !.attempt = @ + 1]

\* _invoke_ollama is called
InvokeOllama ==
  /\ ol.pc \in {"idle", "returned", "raised"}
  /\ \E retries \in Retries : ol' = OllamaStart(retries)
  /\ UNCHANGED <<st, docVars, searchVars, jobVars>>

\* one iteration of the retry loop
OllamaRequest ==
  /\ ol.pc = "loop"
  /\ \E response \in Responses :
       LET o == [ol EXCEPT !.requests = @ + 1,
                           !.outcomes = Append(@, response.kind)]
       IN ol' = IF response.kind = "ok"
                  THEN [o EXCEPT !.pc = "returned",
                                 !.result = <<StripContent(response.content)>>]
                  ELSE AfterFailure(o, response.kind)
  /\ UNCHANGED <<st, docVars, searchVars, jobVars>>

\* ---------------------------------- save_file_to_staging (services/file_save.py)
\* sizes are counted in units of CHUNK_SIZE (1 MiB)
CHUNK_SIZE == 1
MAX_FILE_SIZE_BYTES == 50

\* sizes of the uploads, around the limit
UploadSizes == {0, 1, 2, MAX_FILE_SIZE_BYTES - 1, MAX_FILE_SIZE_BYTES,
                MAX_FILE_SIZE_BYTES + 1, MAX_FILE_SIZE_BYTES + 2}

\* the call before the try block: tmp and final are <<size>> of the file at
\* tmp_path and at file_path, << >> while the file does not exist
StagingStart(total) ==
  [pc |-> "open", total |-> total, size |-> 0, tmp |-> << >>, final |-> << >>,
   status_code |-> 0, io_error |-> FALSE]

StIdle == [StagingStart(0) EXCEPT !.pc = "idle"]

StagingExcept_LeavesTmp(s) == [s EXCEPT !.pc = "raised", !.status_code = 500]

\* except Exception: the temp file is removed if it exists, the error re-raised
StagingExcept(s) ==
  [s EXCEPT !.pc = "raised", !.tmp = << >>, !.status_code = 500]

\* size > MAX_FILE_SIZE_BYTES: the temp file is removed, HTTPException(413)
TooLarge(s) == [s EXCEPT !.pc = "raised", !.tmp = << >>, !.status_code = 413]

\* save_file_to_staging is called: a fresh file_id, the temp file is opened
SaveFileToStaging ==
  /\ st.pc \in {"idle", "returned", "raised"}
  /\ \E total \in UploadSizes, opened \in BOOLEAN :
       st' = IF opened
               THEN [StagingStart(total) EXCEPT !.pc = "write", !.tmp = <<0>>]
               ELSE StagingExcept([StagingStart(total) EXCEPT !.io_error = TRUE])
  /\ UNCHANGED <<ol, docVars, searchVars, jobVars>>

\* one iteration of the read loop; a failing write may leave part of the
\* chunk in the temp file
ReadChunk ==
  /\ st.pc = "write"
  /\ \E io \in {"ok", "read_error", "write_error"}, partial \in {0, CHUNK_SIZE} :
       LET rest == st.total - st.size
           chunk == IF rest < CHUNK_SIZE THEN rest ELSE CHUNK_SIZE
           read == [st EXCEPT !.size = @ + chunk]
       IN /\ io = "ok" => partial = CHUNK_SIZE
          /\ st' =
               IF io = "read_error"
                 THEN StagingExcept([st EXCEPT !.io_error = TRUE])
               ELSE IF chunk = 0
                 THEN [st EXCEPT !.pc = "publish"]
               ELSE IF read.size > MAX_FILE_SIZE_BYTES
                 THEN TooLarge(read)
               ELSE IF io = "write_error"
                 THEN StagingExcept([read EXCEPT !.io_error = TRUE,
                                                 !.tmp = <<@[1] + partial>>])
               ELSE [read EXCEPT !.tmp = <<@[1] + chunk>>]
  /\ UNCHANGED <<ol, docVars, searchVars, jobVars>>

\* flush, fsync, os.replace and the check that the final file exists
Publish ==
  /\ st.pc = "publish"
  /\ \E io \in {"ok", "sync_error", "replace_error", "missing"} :
       st' =
         CASE io = "ok" ->
                [st EXCEPT !.pc = "returned", !.final = st.tmp, !.tmp = << >>]
           [] io = "missing" ->
                StagingExcept([st EXCEPT !.io_error = TRUE, !.tmp = << >>])
           [] OTHER ->
                StagingExcept([st EXCEPT !.io_error = TRUE])
  /\ UNCHANGED <<ol, docVars, searchVars, jobVars>>

\* no model call and no staging upload is in progress
IoIdle ==
  /\ ol = OlIdle
  /\ st = StIdle

\* no request is served and no job runs
SearchIdle ==
  /\ collection = << >>
  /\ hs = [called |-> FALSE]
  /\ chat = [handled |-> FALSE]
  /\ up = UpIdle

JobIdle ==
  /\ job_dir = FALSE
  /\ saved_file_paths = << >>
  /\ job_pc = "idle"
  /\ todo = << >>
  /\ results = [files_processed |-> 0, total_chunks |-> 0, files |-> << >>,
                status |-> << >>]
  /\ results_file = << >>
  /\ file_result = << >>
  /\ poll = [status |-> "none", at |-> "idle"]

\* no document is being processed
DocIdle ==
  /\ pc = "done"
  /\ pos = 0
  /\ current_hierarchy = EmptyDict
  /\ pages = EmptyDict
  /\ item_data = << >>
  /\ applied = << >>
  /\ doc_title = << >>
  /\ page_order = << >>
  /\ page_number = 0
  /\ sections_on_page = << >>
  /\ chunks = << >>
  /\ chunk_index = 0
  /\ script = << >>

Init == DocInit /\ SearchIdle /\ JobIdle /\ IoIdle

Next == ExtractItem \/ StartChunks \/ GroupPage \/ ChunkSection \/ FinishChunks

Spec == Init /\ [][Next]_vars

\* ------------------------------------------- the two-page scenario document
ParagraphTexts == {"a", "b"}

\* page 1: title "Intro" and one paragraph; page 2: level-1 header "Details"
\* and two paragraphs (page 1 with or without provenance)
ScenarioDoc(prov1, p1, p2, p3) ==
  << [label |-> "title", text |-> "Intro", level |-> 1, prov |-> prov1],
     [label |-> "paragraph", text |-> p1, level |-> 1, prov |-> prov1],
     [label |-> "section_header", text |-> "Details", level |-> 1, prov |-> <<2>>],
     [label |-> "paragraph", text |-> p2, level |-> 1, prov |-> <<2>>],
     [label |-> "paragraph", text |-> p3, level |-> 1, prov |-> <<2>>] >>

ScenarioDocs ==
  {ScenarioDoc(prov1, p1, p2, p3) :
     prov1 \in {<< >>, <<1>>}, p1 \in ParagraphTexts,
     p2 \in ParagraphTexts, p3 \in ParagraphTexts}

InitE2E ==
  /\ pc = "extract"
  /\ pos = 0
  /\ current_hierarchy = EmptyDict
  /\ pages = EmptyDict
  /\ item_data = << >>
  /\ applied = << >>
  /\ doc_title = << >>
  /\ page_order = << >>
  /\ page_number = 0
  /\ sections_on_page = << >>
  /\ chunks = << >>
  /\ chunk_index = 0
  /\ script \in ScenarioDocs
  /\ SearchIdle
  /\ JobIdle
  /\ IoIdle

NextE2E == ExtractScripted \/ StartChunks \/ GroupPage \/ ChunkSection \/ FinishChunks

SpecE2E == InitE2E /\ [][NextE2E]_vars

\* ------------------------------------------------------------ hybrid_search
\* A text is the list of its whitespace-separated words (text.split()); the
\* string itself is the words joined by blanks. Scores and the keyword boost
\* are exact numbers in tenths, a final score is in twentieths (twice as fine,
\* for the factor 0.5 of line 264).
MaxStored == 2   \* records in the collection

Words == {"Tax", "tax", "vat"}

\* str.lower() on the words of the model
Lower(w) == IF w = "Tax" THEN "tax" ELSE w

LowerSet(ws) == {Lower(ws[i]) : i \in 1..Len(ws)}

FileIds == {"f1", "f2"}

\* what upsert_chunks stored for one chunk
RecordKinds ==
  [file_id : FileIds,
   keywords : {<< >>, <<"Tax">>, <<"tax", "vat">>},
   context : {<< >>, <<"tax", "vat">>}]

Collections == UNION {[1..n -> RecordKinds] : n \in 0..MaxStored}

Scores == {5, 9}

Queries == {<< >>, <<"tax">>, <<"Tax", "vat">>}

Limits == {1, 2}

\* file_ids: None and [] are both the empty list
FileIdLists == {<< >>, <<"f1">>}

KeywordBoosts == {0, 3}

\* the hit the store returns for record i of the collection with similarity sc
Hit(i, sc) ==
  [id |-> i, score |-> sc, document |-> "text",
   metadata |-> [file_id |-> collection[i].file_id,
                 file_name |-> collection[i].file_id \o ".pdf",
                 keywords |-> collection[i].keywords,
                 context |-> Join(" ", collection[i].context),
                 context_words |-> collection[i].context,
                 section |-> "S",
                 page_numbers |-> <<1>>]]

\* lines 227-236: query_filter, << >> for None, else the list of MatchAny
QueryFilter(file_ids) == IF file_ids # << >> THEN <<file_ids>> ELSE << >>

\* mutant of Matching: the store is asked without the filter
Matching_Unfiltered(file_ids) == DOMAIN collection

\* lines 227-236: the records the filter lets through
Matching(file_ids) ==
  IF file_ids # << >>
  THEN {i \in DOMAIN collection :
          \E k \in 1..Len(file_ids) : collection[i].file_id = file_ids[k]}
  ELSE DOMAIN collection

Min(a, b) == IF a < b THEN a ELSE b

\* client.query(query_filter, limit=n): any ranking of the matching records,
\* best first, cut at n
QueryResults(file_ids, n) ==
  LET m == Matching(file_ids)
      k == Min(n, Cardinality(m))
  IN {r \in [1..k -> [id : m, score : Scores]] :
        /\ \A i \in 1..k : \A j \in 1..k : i # j => r[i].id # r[j].id
        /\ \A i \in 1..(k - 1) : r[i].score >= r[i + 1].score}

\* where an exception can come from inside the try of hybrid_search: the
\* store query, the scoring of a hit, the rendering of a hit
ExceptionSites == {"query", "scoring", "rendering"}

\* what the store can do on a query: make the call raise (in the query, or
\* later by a hit the scoring or the rendering cannot handle), or answer with
\* a ranking
StoreOutcomes(file_ids, n) ==
  {[raised |-> TRUE, site |-> e, hits |-> << >>] : e \in ExceptionSites}
  \cup {[raised |-> FALSE, site |-> "",
          hits |-> [i \in DOMAIN r |-> Hit(r[i].id, r[i].score)]] :
          r \in QueryResults(file_ids, n)}

\* mutant of ScoreHit: the hit's keywords are compared without lower-casing
ScoreHit_NoLower(hit, query_words, keyword_boost) ==
  LET hit_keywords == {hit.metadata.keywords[i] : i \in 1..Len(hit.metadata.keywords)}
      context_words == LowerSet(hit.metadata.context_words)
      keyword_overlap == Cardinality(query_words \cap hit_keywords)
      context_overlap == Cardinality(query_words \cap context_words)
  IN [final_score |-> 2 * hit.score + (2 * keyword_overlap + context_overlap) * keyword_boost,
      keyword_overlap |-> keyword_overlap,
      context_overlap |-> context_overlap,
      hit |-> hit]

\* lines 253-267, for one hit
ScoreHit(hit, query_words, keyword_boost) ==
  LET hit_keywords == LowerSet(hit.metadata.keywords)
      context_words == LowerSet(hit.metadata.context_words)
      keyword_overlap == Cardinality(query_words \cap hit_keywords)
      context_overlap == Cardinality(query_words \cap context_words)
  IN [final_score |-> 2 * hit.score + (2 * keyword_overlap + context_overlap) * keyword_boost,
      keyword_overlap |-> keyword_overlap,
      context_overlap |-> context_overlap,
      hit |-> hit]

\* mutant of InsertDesc: x is placed before the entries of equal score
InsertDesc_BeforeEqual(sorted, x) ==
  LET k == Cardinality({i \in 1..Len(sorted) : sorted[i].final_score > x.final_score})
  IN SubSeq(sorted, 1, k) \o <<x>> \o SubSeq(sorted, k + 1, Len(sorted))

\* list.sort(key=score, reverse=True) places x: behind every entry scoring at
\* least as much (the sort is stable)
InsertDesc(sorted, x) ==
  LET k == Cardinality({i \in 1..Len(sorted) : sorted[i].final_score >= x.final_score})
  IN SubSeq(sorted, 1, k) \o <<x>> \o SubSeq(sorted, k + 1, Len(sorted))

\* mutant of SortDesc: the candidates stay in the order the store gave them
SortDesc_Unsorted(scored) == scored

RECURSIVE SortDesc(_)
\* line 270
SortDesc(scored) ==
  IF scored = << >> THEN << >>
  ELSE InsertDesc(SortDesc(SubSeq(scored, 1, Len(scored) - 1)), scored[Len(scored)])

\* lines 284-286
PagesStr(page_numbers, unknown) ==
  IF page_numbers # << >>
  THEN Join(", ", [i \in 1..Len(page_numbers) |-> ToStr(page_numbers[i])])
  ELSE unknown

\* lines 295-302
RenderPart(hit) ==
  "File: " \o hit.metadata.file_name \o "\n"
  \o "Pages: " \o PagesStr(hit.metadata.page_numbers, "unknown") \o "\n"
  \o "Section: " \o hit.metadata.section \o "\n"
  \o (IF hit.metadata.keywords # << >>
      THEN "Keywords: " \o Join(", ", hit.metadata.keywords) \o "\n" ELSE "")
  \o (IF hit.metadata.context # ""
      THEN "Context: " \o hit.metadata.context \o "\n" ELSE "")
  \o "Content: " \o hit.document

\* lines 307-314 (the Polish text without its diacritics)
SourcesSummary(top_results) ==
  "## Podsumowanie znalezionych zrodel (znaleziono "
  \o ToStr(Len(top_results)) \o " wynikow):\n"
  \o (IF Len(top_results) > 1
      THEN "UWAGA: Znaleziono informacje w WIELU miejscach!\n" ELSE "")
  \o "Lista znalezionych zrodel:\n"
  \o Join("", [i \in 1..Len(top_results) |->
                 "  " \o ToStr(i) \o ". Plik: " \o top_results[i].hit.metadata.file_name
                 \o " - strony: "
                 \o PagesStr(top_results[i].hit.metadata.page_numbers, "nieznane")
                 \o "\n"])
  \o "\nSzczegolowe konteksty ponizej:\n\n"

\* lines 273-315
Render(top_results) ==
  SourcesSummary(top_results)
  \o Join("\n\n---\n\n", [i \in 1..Len(top_results) |-> RenderPart(top_results[i].hit)])

\* mutant of HybridSearchCall: there is no except clause, an exception leaves
\* the call
HybridSearchCall_Propagates(query, limit, file_ids, keyword_boost, outcome) ==
  LET query_words == LowerSet(query)
      scored_results == [i \in 1..Len(outcome.hits) |->
                           ScoreHit(outcome.hits[i], query_words, keyword_boost)]
      sorted_results == SortDesc(scored_results)
      top_results == SubSeq(sorted_results, 1, Min(limit, Len(sorted_results)))
  IN [called |-> TRUE, query |-> query, limit |-> limit, file_ids |-> file_ids,
      keyword_boost |-> keyword_boost, requested |-> limit * 2,
      query_filter |-> QueryFilter(file_ids),
      store_raised |-> outcome.raised,
      raised_in |-> outcome.site,
      search_result |-> outcome.hits,
      scored_results |-> IF outcome.raised THEN << >> ELSE sorted_results,
      top_results |-> IF outcome.raised THEN << >> ELSE top_results,
      raised |-> outcome.raised,
      result |-> IF outcome.raised THEN "" ELSE Render(top_results)]

\* lines 226-319: the call with what the store did on the query
HybridSearchCall(query, limit, file_ids, keyword_boost, outcome) ==
  LET query_words == LowerSet(query)
      scored_results == [i \in 1..Len(outcome.hits) |->
                           ScoreHit(outcome.hits[i], query_words, keyword_boost)]
      sorted_results == SortDesc(scored_results)
      top_results == SubSeq(sorted_results, 1, Min(limit, Len(sorted_results)))
  IN [called |-> TRUE, query |-> query, limit |-> limit, file_ids |-> file_ids,
      keyword_boost |-> keyword_boost, requested |-> limit * 2,
      query_filter |-> QueryFilter(file_ids),
      store_raised |-> outcome.raised,
      raised_in |-> outcome.site,
      search_result |-> outcome.hits,
      scored_results |-> IF outcome.raised THEN << >> ELSE sorted_results,
      top_results |-> IF outcome.raised THEN << >> ELSE top_results,
      raised |-> FALSE,
      result |-> IF outcome.raised THEN "" ELSE Render(top_results)]

\* no call of hybrid_search or chat_endpoint is in progress
NoRequest == ~hs.called /\ ~chat.handled

\* hybrid_search called on its own
HybridSearch ==
  /\ NoRequest
  /\ \E query \in Queries, limit \in Limits, file_ids \in FileIdLists,
        keyword_boost \in KeywordBoosts :
       \E outcome \in StoreOutcomes(file_ids, limit * 2) :
         hs' = HybridSearchCall(query, limit, file_ids, keyword_boost, outcome)
  /\ chat' = [handled |-> FALSE]
  /\ UNCHANGED <<collection, up, docVars, jobVars, ioVars>>

\* the user messages of a request: the last one is the query; << >> is a
\* request without a (non-empty) user message
UserMessages == {<< >>, <<"tax">>}

\* chat.py lines 74-96: the messages built from the context
ContextBranch(context) == IF context # "" THEN "context" ELSE "no_documents"

\* chat.py lines 47-118
ChatEndpoint ==
  /\ NoRequest
  /\ \E last_user_message \in UserMessages, file_ids \in FileIdLists,
        connected \in BOOLEAN, llm_ok \in BOOLEAN :
       \E outcome \in StoreOutcomes(file_ids, 6) :
         LET searched == last_user_message # << >> /\ connected
             call == HybridSearchCall(last_user_message, 3, file_ids, 3, outcome)
             context == IF searched THEN call.result ELSE ""
         IN /\ hs' = IF searched THEN call ELSE [called |-> FALSE]
            /\ chat' = [handled |-> TRUE, searched |-> searched,
                        context |-> context, branch |-> ContextBranch(context),
                        llm_called |-> TRUE, llm_ok |-> llm_ok,
                        status |-> IF llm_ok THEN 200 ELSE 500]
  /\ UNCHANGED <<collection, up, docVars, jobVars, ioVars>>

\* the call has returned to its caller (lines 315 and 319; chat.py line 113):
\* its locals are gone
ReturnToCaller ==
  /\ ~NoRequest
  /\ hs' = [called |-> FALSE]
  /\ chat' = [handled |-> FALSE]
  /\ UNCHANGED <<collection, up, docVars, jobVars, ioVars>>

InitSearch ==
  /\ DocIdle
  /\ JobIdle
  /\ IoIdle
  /\ collection \in Collections
  /\ hs = [called |-> FALSE]
  /\ chat = [handled |-> FALSE]
  /\ up = UpIdle

NextSearch == HybridSearch \/ ChatEndpoint \/ ReturnToCaller

SpecSearch == InitSearch /\ [][NextSearch]_vars

\* ------------------------------------- upload_files and process_saved_files
MaxFiles == 2    \* files in one upload request
MaxChunks == 2   \* chunks process_document yields for one file

\* what happens to one uploaded file in FileStorageService.save_file
UploadKinds == {"invalid_name", "too_large", "write_error", "saved"}

\* file_storage.py lines 84-117: whether the call has created the job
\* directory (line 92 runs once the file name is valid)
SaveFileMakesDir(kind) == kind # "invalid_name"

\* file_storage.py lines 84-117: Optional[Path], the path being the file's
\* position in the request
SaveFile(kind, i) == IF kind = "saved" THEN <<i>> ELSE << >>

RECURSIVE SavedPaths(_, _)
\* upload.py lines 58-63: the paths of the first n files
SavedPaths(files, n) ==
  IF n = 0 THEN << >>
  ELSE SavedPaths(files, n - 1) \o SaveFile(files[n], n)

\* upload.py lines 54-71: the whole request
UploadFiles ==
  /\ job_pc = "idle"
  /\ \E n \in 1..MaxFiles : \E files \in [1..n -> UploadKinds] :
       /\ saved_file_paths' = SavedPaths(files, n)
       /\ todo' = SavedPaths(files, n)
       /\ job_dir' = \E i \in 1..n : SaveFileMakesDir(files[i])
  /\ job_pc' = "scheduled"
  /\ UNCHANGED <<results, results_file, file_result, poll, docVars, searchVars, ioVars>>

\* what process_document does for one file: raise, or yield some chunks
DocumentOutcomes ==
  {[document |-> "raise", n_chunks |-> 0]}
  \cup [document : {"ok"}, n_chunks : 0..MaxChunks]

\* what QdrantService() and upsert_chunks do for one file
StoreResults == {"ok", "raise"}

\* mutant of ConvertedFile: the error of a file is not recorded on its entry
ConvertedFile_FailureUnmarked(path, o) ==
  IF o.document = "raise"
  THEN [filename |-> path, status |-> "processing", chunks |-> << >>,
        error |-> << >>, raised |-> TRUE, store_raised |-> FALSE]
  ELSE [filename |-> path, status |-> "completed",
        chunks |-> [i \in 1..o.n_chunks |-> i - 1],
        error |-> << >>, raised |-> FALSE, store_raised |-> FALSE]

\* upload_service.py lines 50-79 and 97-100: file_result once the file is
\* converted or the conversion has raised (chunks: the chunk indices of the
\* chunk_data list; raised and store_raised are history)
ConvertedFile(path, o) ==
  IF o.document = "raise"
  THEN [filename |-> path, status |-> "failed", chunks |-> << >>,
        error |-> <<"document error">>, raised |-> TRUE, store_raised |-> FALSE]
  ELSE [filename |-> path, status |-> "completed",
        chunks |-> [i \in 1..o.n_chunks |-> i - 1],
        error |-> << >>, raised |-> FALSE, store_raised |-> FALSE]

\* mutant of CountFile: every file is counted, the failed ones too
CountFile_CountsEvery(r, entry) ==
  [r EXCEPT !.files_processed = @ + 1, !.total_chunks = @ + Len(entry.chunks)]

\* upload_service.py lines 80-81, reached only by a converted file
CountFile(r, entry) ==
  IF entry.status = "completed"
  THEN [r EXCEPT !.files_processed = @ + 1, !.total_chunks = @ + Len(entry.chunks)]
  ELSE r

\* mutant of StoredFile: a failure of the store marks the file failed
StoredFile_MarksFailed(entry, store) ==
  IF store = "raise"
  THEN [entry EXCEPT !.status = "failed", !.chunks = << >>,
                     !.error = <<"Processed but vector store failed">>,
                     !.store_raised = TRUE]
  ELSE entry

\* upload_service.py lines 84-95: file_result after the store was tried
StoredFile(entry, store) ==
  IF store = "raise"
  THEN [entry EXCEPT !.error = <<"Processed but vector store failed">>,
                     !.store_raised = TRUE]
  ELSE entry

\* upload_service.py lines 49-81 and 97-100: the next file is converted, its
\* file_result built and, if converted, counted
ConvertFile ==
  /\ job_pc = "scheduled"
  /\ todo # << >>
  /\ file_result = << >>
  /\ \E o \in DocumentOutcomes :
       LET entry == ConvertedFile(Head(todo), o)
       IN /\ file_result' = <<entry>>
          /\ results' = CountFile(results, entry)
  /\ UNCHANGED <<job_dir, saved_file_paths, job_pc, todo, results_file, poll,
                 docVars, searchVars, ioVars>>

\* upload_service.py lines 83-102: the chunks of a converted file go to the
\* store, and file_result is appended to the results
AppendFileResult ==
  /\ job_pc = "scheduled"
  /\ file_result # << >>
  /\ \E store \in StoreResults :
       /\ file_result[1].status # "completed" => store = "ok"
       /\ results' = [results EXCEPT
                        !.files = Append(@, StoredFile(file_result[1], store))]
  /\ file_result' = << >>
  /\ todo' = Tail(todo)
  /\ UNCHANGED <<job_dir, saved_file_paths, job_pc, results_file, poll,
                 docVars, searchVars, ioVars>>

\* upload_service.py lines 105-107: open(results_path, 'w') creates the file
\* only inside an existing directory; otherwise it raises and lines 115-120
\* return the results without writing them
WriteResults(dir_exists, r) == IF dir_exists THEN <<r>> ELSE << >>

\* upload_service.py lines 104-120: after the loop
FinishJob ==
  /\ job_pc = "scheduled"
  /\ todo = << >>
  /\ file_result = << >>
  /\ results_file' = WriteResults(job_dir, results)
  /\ results' = IF WriteResults(job_dir, results) = << >>
                THEN [results EXCEPT !.status = <<"failed">>] ELSE results
  /\ job_pc' = "returned"
  /\ UNCHANGED <<job_dir, saved_file_paths, todo, file_result, poll,
                 docVars, searchVars, ioVars>>

\* upload.py lines 90-107: 404 while results.json does not exist
JobStatusCode(file) == IF file = << >> THEN "404" ELSE "200"

\* GET /job/{job_id}; the answer is kept with the job's position at the time
GetJobResults ==
  /\ job_pc # "idle"
  /\ poll' = [status |-> JobStatusCode(results_file), at |-> job_pc]
  /\ UNCHANGED <<job_dir, saved_file_paths, job_pc, todo, results, results_file,
                 file_result, docVars, searchVars, ioVars>>

InitJob ==
  /\ DocIdle
  /\ SearchIdle
  /\ JobIdle
  /\ IoIdle

NextJob ==
  UploadFiles \/ ConvertFile \/ AppendFileResult \/ FinishJob \/ GetJobResults

SpecJob == InitJob /\ [][NextJob]_vars

\* ------------------------------------------- upsert_chunks called on its own
InitUpsert ==
  /\ DocIdle
  /\ SearchIdle
  /\ JobIdle
  /\ IoIdle

NextUpsert == UpsertChunks \/ PrepareChunk \/ ClientAdd \/ UpsertAgain

SpecUpsert == InitUpsert /\ [][NextUpsert]_vars

\* ------------------------------------------ _invoke_ollama called on its own
InitOllama ==
  /\ DocIdle
  /\ SearchIdle
  /\ JobIdle
  /\ IoIdle

NextOllama == InvokeOllama \/ OllamaRequest

SpecOllama == InitOllama /\ [][NextOllama]_vars

\* ------------------------------------ save_file_to_staging called on its own
InitStaging ==
  /\ DocIdle
  /\ SearchIdle
  /\ JobIdle
  /\ IoIdle

NextStaging == SaveFileToStaging \/ ReadChunk \/ Publish

SpecStaging == InitStaging /\ [][NextStaging]_vars

\* ================================================================== claims
\* the step being taken is one iteration of the extraction loop
ExtractedOne == pc = "extract" /\ pos' = pos + 1 /\ item_data' # << >>

\* some item already stored carried a hierarchy with a level deeper than L
StoredDeeperThan(L) ==
  \E p \in DOMAIN pages : \E i \in 1..Len(pages[p]) :
    \E k \in DOMAIN pages[p][i].section_hierarchy : k > L

\* the last item processed has one of these labels
LastLabelIn(S) == pc = "extract" /\ item_data # << >> /\ item_data[1].label \in S

\* C1: right after a section header with non-empty text at level L the
\* hierarchy has no key >= L other than L, L maps to the header's text, and
\* every key < L present before is still present with the same title.
C1_HeaderReplacesDeeperLevels ==
  [][ExtractedOne =>
       LET d == item_data'[1]
           L == d.header_level
       IN (d.label = "section_header" /\ d.text # "") =>
            /\ {k \in DOMAIN current_hierarchy' : k >= L} = {L}
            /\ current_hierarchy'[L] = d.text
            /\ \A k \in DOMAIN current_hierarchy :
                 k < L => /\ k \in DOMAIN current_hierarchy'
                          /\ current_hierarchy'[k] = current_hierarchy[k]]_vars

\* a level-1 header was applied after a deeper level had been recorded, and
\* the shallower level 0 survived
C1_Witness ==
  /\ LastLabelIn({"section_header"})
  /\ item_data[1].text # ""
  /\ item_data[1].header_level = 1
  /\ StoredDeeperThan(1)
  /\ DOMAIN current_hierarchy = {0, 1}

\* C2 (as stated): every classified item, titles and section headers
\* included, carries the hierarchy as it stood before the item was applied.
C2_SnapshotBeforeEveryItem ==
  [][ExtractedOne => item_data'[1].section_hierarchy = current_hierarchy]_vars

\* C2 (amended): a title or section header with non-empty text carries the
\* hierarchy as updated by that very item; every other item carries the
\* hierarchy as it stood before the item, which it leaves unchanged.
C2_SnapshotOfItem ==
  [][ExtractedOne =>
       LET d == item_data'[1]
       IN IF d.label \in {"title", "section_header"} /\ d.text # ""
          THEN /\ d.section_hierarchy = current_hierarchy'
               /\ d.section_hierarchy[IF d.label = "title" THEN 0 ELSE d.header_level]
                    = d.text
          ELSE /\ d.section_hierarchy = current_hierarchy
               /\ current_hierarchy' = current_hierarchy]_vars

\* a header was applied on top of a title: the item's snapshot holds the
\* header's own level
C2_Witness ==
  /\ LastLabelIn({"section_header"})
  /\ item_data[1].text # ""
  /\ item_data[1].header_level = 2
  /\ DOMAIN item_data[1].section_hierarchy = {0, 2}
  /\ item_data[1].section_hierarchy = current_hierarchy

\* C3 (as stated): the two-page scenario yields exactly 2 chunks, chunk 0
\* with section_title "Intro" on page 1, chunk 1 with section_title
\* "Details" on page 2 and parent_context "".
C3_ScenarioAsStated ==
  pc = "done" =>
    /\ Len(chunks) = 2
    /\ chunks[1].section_title = "Intro"
    /\ chunks[1].metadata.page_number = 1
    /\ chunks[2].section_title = "Details"
    /\ chunks[2].metadata.page_number = 2
    /\ chunks[2].metadata.parent_context = ""

\* C3 (amended): the two-page scenario yields exactly 2 chunks, chunk 0 with
\* section_title "Intro" on page 1, chunk 1 with section_title
\* "Intro > Details" on page 2 and parent_context "Intro".
C3_Scenario ==
  pc = "done" =>
    /\ Len(chunks) = 2
    /\ chunks[1].chunk_index = 0
    /\ chunks[1].section_title = "Intro"
    /\ chunks[1].metadata.page_number = 1
    /\ chunks[2].chunk_index = 1
    /\ chunks[2].section_title = "Intro > Details"
    /\ chunks[2].metadata.page_number = 2
    /\ chunks[2].metadata.parent_context = "Intro"

\* the scenario document has been processed to the end
C3_Witness ==
  /\ pc = "done"
  /\ pos = 5
  /\ Len(chunks) = 2
  /\ chunks[2].content = "Details\n\na\n\nb"

\* a block's items: consecutive positions of the page's list, each item
\* carrying the block's hierarchy
BlockSharesSnapshot(sec, page_items) ==
  /\ \A k \in 1..(Len(sec.items) - 1) : sec.items[k + 1] = sec.items[k] + 1
  /\ \A k \in 1..Len(sec.items) :
       /\ page_items[sec.items[k]].text = sec.content_parts[k]
       /\ page_items[sec.items[k]].section_hierarchy = sec.hierarchy

\* the stored items' page numbers never decrease in document order
PagesMonotone ==
  \A p \in DOMAIN pages : \A q \in DOMAIN pages :
    p < q => \A i \in 1..Len(pages[p]) : \A j \in 1..Len(pages[q]) :
               pages[p][i].doc_pos < pages[q][j].doc_pos

\* C7 (as stated): every emitted block is a contiguous run of one page's
\* items that all carry the block's hierarchy, for every order of items and
\* page numbers.
C7_BlockSharesSnapshotAlways ==
  \A s \in 1..Len(sections_on_page) :
    BlockSharesSnapshot(sections_on_page[s], pages[page_number])

\* C7 (amended): when page numbers do not decrease in document order, every
\* emitted block is a contiguous run of one page's items that all carry the
\* block's hierarchy.
C7_BlockSharesSnapshot ==
  PagesMonotone =>
    \A s \in 1..Len(sections_on_page) :
      BlockSharesSnapshot(sections_on_page[s], pages[page_number])

\* the second page of a document was grouped into a block of two items under
\* a hierarchy recorded on the first page
C7_Witness ==
  /\ PagesMonotone
  /\ Cardinality(DOMAIN pages) = 2
  /\ page_number = 2
  /\ Len(sections_on_page) = 1
  /\ Len(sections_on_page[1].items) = 2
  /\ sections_on_page[1].hierarchy # EmptyDict

\* C8: during the traversal the hierarchy holds only levels <= the level of
\* the last applied header (a title counting as level 0), plus level 0, and
\* level 0, when present, holds the text of the last title.
C8_LevelsBoundedByLastHeader ==
  pc = "extract" =>
    /\ \A k \in DOMAIN current_hierarchy :
         k = 0 \/ (applied # << >> /\ k <= applied[1])
    /\ 0 \in DOMAIN current_hierarchy =>
         (doc_title # << >> /\ current_hierarchy[0] = doc_title[1])

\* a level-1 header followed a deeper one under a title
C8_Witness ==
  /\ pc = "extract"
  /\ applied = <<1>>
  /\ StoredDeeperThan(1)
  /\ DOMAIN current_hierarchy = {0, 1}
  /\ doc_title = <<current_hierarchy[0]>>

\* C9 (as stated): processing a title item resets the hierarchy to exactly
\* {0: title_text}.
C9_TitleResetsAlways ==
  [][ExtractedOne =>
       (item_data'[1].label = "title" =>
          current_hierarchy' = [k \in {0} |-> item_data'[1].text])]_vars

\* C9 (amended): processing a title item with non-empty text resets the
\* hierarchy to exactly {0: title_text}, discarding every recorded level; a
\* title with empty text leaves the hierarchy as it was.
C9_TitleResets ==
  [][ExtractedOne =>
       (item_data'[1].label = "title" =>
          IF item_data'[1].text # ""
          THEN current_hierarchy' = [k \in {0} |-> item_data'[1].text]
          ELSE current_hierarchy' = current_hierarchy)]_vars

\* a title was applied after a section level had been recorded
C9_Witness ==
  /\ LastLabelIn({"title"})
  /\ item_data[1].text # ""
  /\ StoredDeeperThan(0)
  /\ DOMAIN current_hierarchy = {0}
  /\ current_hierarchy[0] = item_data[1].text

\* C10: a content, table or other item leaves the hierarchy unchanged and
\* carries the hierarchy that was current when it was seen.
C10_ContentKeepsHierarchy ==
  [][ExtractedOne =>
       (item_data'[1].label \notin {"title", "section_header"} =>
          /\ current_hierarchy' = current_hierarchy
          /\ item_data'[1].section_hierarchy = current_hierarchy)]_vars

\* a table or unrecognised item was seen under a two-level hierarchy
C10_Witness ==
  /\ LastLabelIn({"table", "picture"})
  /\ item_data[1].type \in {"table", "other_content"}
  /\ Cardinality(DOMAIN current_hierarchy) = 2
  /\ item_data[1].section_hierarchy = current_hierarchy

\* the overlap counts of a hit with the query of the call, as the claim
\* defines them
KeywordOverlap(hit) ==
  Cardinality(LowerSet(hs.query) \cap LowerSet(hit.metadata.keywords))

ContextOverlap(hit) ==
  Cardinality(LowerSet(hs.query) \cap LowerSet(hit.metadata.context_words))

\* C4: when the store returns an empty result set hybrid_search does not
\* raise and returns the empty string, so that chat_endpoint takes its
\* 'no documents found' branch.
C4_EmptyResultGivesNoContext ==
  (hs.called /\ ~hs.store_raised /\ hs.search_result = << >>) =>
    /\ ~hs.raised
    /\ hs.result = ""
    /\ chat.handled => chat.branch = "no_documents"

\* C5 (as stated): for two candidates of equal base score and a boost > 0,
\* a strictly greater keyword overlap gives a strictly greater final score,
\* whatever the context overlaps are.
C5_KeywordOverlapDecides ==
  (hs.called /\ hs.keyword_boost > 0) =>
    \A a \in 1..Len(hs.scored_results) : \A b \in 1..Len(hs.scored_results) :
      LET A == hs.scored_results[a]
          B == hs.scored_results[b]
      IN (A.hit.score = B.hit.score
          /\ KeywordOverlap(A.hit) > KeywordOverlap(B.hit))
         => A.final_score > B.final_score

\* C5 (amended): for two candidates of equal base score and a boost > 0, a
\* strictly greater keyword overlap gives a strictly greater final score
\* when A's context overlap is at least B's.
C5_KeywordOverlapDecidesGivenContext ==
  (hs.called /\ hs.keyword_boost > 0) =>
    \A a \in 1..Len(hs.scored_results) : \A b \in 1..Len(hs.scored_results) :
      LET A == hs.scored_results[a]
          B == hs.scored_results[b]
      IN (A.hit.score = B.hit.score
          /\ KeywordOverlap(A.hit) > KeywordOverlap(B.hit)
          /\ ContextOverlap(A.hit) >= ContextOverlap(B.hit))
         => A.final_score > B.final_score

\* the store ranked B before A with equal scores; A matches a keyword given
\* in another case than the query's, and the re-ranking put A first
C5_Witness ==
  /\ hs.called
  /\ hs.keyword_boost > 0
  /\ Len(hs.scored_results) = 2
  /\ hs.search_result[1].score = hs.search_result[2].score
  /\ hs.scored_results[1].hit.id = hs.search_result[2].id
  /\ KeywordOverlap(hs.scored_results[1].hit) > KeywordOverlap(hs.scored_results[2].hit)
  /\ ContextOverlap(hs.scored_results[1].hit) = ContextOverlap(hs.scored_results[2].hit)
  /\ "Tax" \in {hs.scored_results[1].hit.metadata.keywords[i] :
                  i \in 1..Len(hs.scored_results[1].hit.metadata.keywords)}
  /\ hs.scored_results[1].final_score > hs.scored_results[2].final_score

\* C6: every job that runs to the end of its file loop leaves a persisted
\* result artifact that get_job_results can read, for every list of saved
\* file paths including the empty list: once process_saved_files has
\* returned, results.json exists and a poll is not answered 404.
C6_ReturnedJobHasArtifact ==
  job_pc = "returned" =>
    /\ results_file # << >>
    /\ poll # [status |-> "404", at |-> "returned"]

\* C11: a section header whose text is empty leaves the hierarchy unchanged
\* (its own snapshot is the unchanged hierarchy) and the item is still
\* classified with type section_header.
C11_EmptyHeaderKeepsHierarchy ==
  [][ExtractedOne =>
       LET d == item_data'[1]
       IN (d.label = "section_header" /\ d.text = "") =>
            /\ current_hierarchy' = current_hierarchy
            /\ d.section_hierarchy = current_hierarchy
            /\ d.type = "section_header"
            /\ d.has_header_level]_vars

\* an empty level-1 header was seen under a hierarchy holding levels 1 and 2,
\* which applying it would have cut back
C11_Witness ==
  /\ LastLabelIn({"section_header"})
  /\ item_data[1].text = ""
  /\ item_data[1].type = "section_header"
  /\ item_data[1].header_level = 1
  /\ DOMAIN current_hierarchy = {1, 2}
  /\ item_data[1].section_hierarchy = current_hierarchy

\* C12: an item without page provenance is assigned page 1 (one with
\* provenance the page of its first entry), so every key of the page map is
\* a page number, none stands for a missing page, and every stored item's
\* page_number is the key of the bucket it is in.
C12_PageDefaultsToOne ==
  [][ExtractedOne =>
       LET d == item_data'[1]
       IN /\ d.page_number = IF d.prov = << >> THEN 1 ELSE d.prov[1]
          /\ \A p \in DOMAIN pages' :
               /\ p \in PageNumbers
               /\ \A i \in 1..Len(pages'[p]) : pages'[p][i].page_number = p]_vars

\* an item without provenance was stored in the bucket of page 1 after an
\* item of page 2 had been stored
C12_Witness ==
  /\ pc = "extract"
  /\ item_data # << >>
  /\ item_data[1].prov = << >>
  /\ item_data[1].text # ""
  /\ DOMAIN pages = {1, 2}
  /\ pages[1][Len(pages[1])] = item_data[1]

\* the item types the classifier assigns
ItemTypes == {"title", "section_header", "content", "table", "other_content"}

RECURSIVE StoredIn(_, _)
\* the number of items in the buckets S of a page map
StoredIn(pgs, S) ==
  IF S = {} THEN 0
  ELSE LET p == CHOOSE x \in S : TRUE IN Len(pgs[p]) + StoredIn(pgs, S \ {p})

\* pgs2 is pgs with d appended to the bucket of page p and nothing else changed
PlacedOnce(pgs, pgs2, p, d) ==
  /\ DOMAIN pgs2 = DOMAIN pgs \cup {p}
  /\ pgs2[p] = (IF p \in DOMAIN pgs THEN pgs[p] ELSE << >>) \o <<d>>
  /\ \A q \in DOMAIN pgs : q # p => pgs2[q] = pgs[q]

\* C13: every item in a page bucket has non-empty text and one of the five
\* types; a parsed item with non-empty text, whatever its label, is appended
\* to exactly one bucket (that of its page) with its text, and a parsed item
\* with empty text changes no bucket.
C13_NonEmptyItemsStored ==
  [][ExtractedOne =>
       /\ \A item \in Items : ExtractStep(item) =>
            IF item.text # ""
            THEN /\ item_data'[1].text = item.text
                 /\ PlacedOnce(pages, pages', PageNumberOf(item), item_data'[1])
            ELSE pages' = pages
       /\ \A p \in DOMAIN pages' : \A i \in 1..Len(pages'[p]) :
            /\ pages'[p][i].text # ""
            /\ pages'[p][i].type \in ItemTypes]_vars

\* an item of an unrecognised label was stored as other_content, after an
\* item with empty text had been dropped
C13_Witness ==
  /\ LastLabelIn({"picture"})
  /\ item_data[1].type = "other_content"
  /\ pages[item_data[1].page_number][Len(pages[item_data[1].page_number])] = item_data[1]
  /\ pos = 3
  /\ StoredIn(pages, DOMAIN pages) = 2

\* the step being taken groups the next page into blocks
GroupedOne == pc = "chunk" /\ page_order # << >> /\ page_order' = Tail(page_order)

RECURSIVE Fragments(_)
\* the content fragments of a list of blocks, in emission order
Fragments(sections) ==
  IF sections = << >> THEN << >>
  ELSE Head(sections).content_parts \o Fragments(Tail(sections))

\* C14: grouping a page drops no content: the content fragments of the
\* emitted blocks, concatenated in emission order, are the texts of the
\* page's items in their original order, each exactly once, and each block's
\* content is the join of its fragments.
C14_GroupingKeepsAllContent ==
  [][GroupedOne =>
       LET page_items == pages[page_number']
       IN /\ Fragments(sections_on_page')
               = [i \in 1..Len(page_items) |-> page_items[i].text]
          /\ \A s \in 1..Len(sections_on_page') :
               sections_on_page'[s].content
                 = Join("\n\n", sections_on_page'[s].content_parts)]_vars

\* a page of three items with a header between two content items was grouped
\* into two blocks
C14_Witness ==
  /\ pc = "chunk"
  /\ page_number # 0
  /\ Len(pages[page_number]) = 3
  /\ pages[page_number][1].type = "content"
  /\ pages[page_number][2].type = "section_header"
  /\ pages[page_number][3].type \in {"table", "other_content"}
  /\ Len(sections_on_page) = 2
  /\ sections_on_page[2].content_parts
       = <<pages[page_number][2].text, pages[page_number][3].text>>

\* the item opens a block in _group_items_by_section
IsHeader(item) == item.type \in {"title", "section_header"}

\* C15: grouping a page emits one block per title or section-header item,
\* opened by the header's own text under the header's hierarchy, plus one
\* leading block iff the page starts with content (a block without content
\* is not emitted); nothing but the opening item of a block is a header, so
\* k consecutive headers give k back-to-back blocks holding only their
\* header text.
C15_HeaderOpensBlock ==
  [][GroupedOne =>
       LET page_items == pages[page_number']
           secs == sections_on_page'
           headers == {i \in 1..Len(page_items) : IsHeader(page_items[i])}
       IN /\ Len(secs) = Cardinality(headers) + (IF 1 \in headers THEN 0 ELSE 1)
          /\ \A i \in headers : \E s \in 1..Len(secs) :
               /\ secs[s].items[1] = i
               /\ secs[s].content_parts[1] = page_items[i].text
               /\ secs[s].hierarchy = page_items[i].section_hierarchy
               /\ (i + 1) \in headers =>
                    /\ secs[s].content_parts = <<page_items[i].text>>
                    /\ s < Len(secs)
                    /\ secs[s + 1].items[1] = i + 1
          /\ \A s \in 1..Len(secs) : \A k \in 2..Len(secs[s].items) :
               ~IsHeader(page_items[secs[s].items[k]])]_vars

\* a page of three consecutive headers was grouped into three blocks, each
\* holding only its header's text
C15_Witness ==
  /\ pc = "chunk"
  /\ page_number # 0
  /\ Len(pages[page_number]) = 3
  /\ \A i \in 1..3 : IsHeader(pages[page_number][i])
  /\ Len(sections_on_page) = 3
  /\ \A s \in 1..3 :
       sections_on_page[s].content_parts = <<pages[page_number][s].text>>

\* the hierarchy of the example
ExampleHierarchy == [k \in {0, 1, 2} |-> <<"Doc", "Ch1", "Sec1">>[k + 1]]

RECURSIVE TitlesFrom(_, _, _)
\* the titles a hierarchy holds at the levels k..top, by ascending level
TitlesFrom(hierarchy, k, top) ==
  IF k > top THEN << >>
  ELSE (IF k \in DOMAIN hierarchy THEN <<hierarchy[k]>> ELSE << >>)
       \o TitlesFrom(hierarchy, k + 1, top)

\* the deepest level of a non-empty hierarchy
Deepest(hierarchy) == CHOOSE k \in DOMAIN hierarchy : \A j \in DOMAIN hierarchy : j <= k

\* the titles joined by ascending level, and the same without the deepest level
JoinedTitles(hierarchy) ==
  IF hierarchy = EmptyDict THEN ""
  ELSE Join(" > ", TitlesFrom(hierarchy, 0, Deepest(hierarchy)))

JoinedParents(hierarchy) ==
  IF hierarchy = EmptyDict THEN ""
  ELSE Join(" > ", TitlesFrom(hierarchy, 0, Deepest(hierarchy) - 1))

\* the example: {0:Doc, 1:Ch1, 2:Sec1} gives "Doc > Ch1 > Sec1" and "Doc > Ch1"
ExampleTitles ==
  /\ BuildSectionTitle(ExampleHierarchy) = "Doc > Ch1 > Sec1"
  /\ BuildParentContext(ExampleHierarchy) = "Doc > Ch1"

\* C16 (as stated): for every hierarchy, section_title is the titles joined
\* with " > " by ascending level and parent_context the same join without the
\* deepest level, empty when the hierarchy has at most one entry.
C16_TitleIsJoinAlways ==
  /\ ExampleTitles
  /\ \A c \in 1..Len(chunks) :
       /\ chunks[c].section_title = JoinedTitles(chunks[c].metadata.hierarchy)
       /\ chunks[c].metadata.parent_context = JoinedParents(chunks[c].metadata.hierarchy)

\* C16 (amended): for every non-empty hierarchy, section_title is the titles
\* joined with " > " by ascending level and parent_context the same join
\* without the deepest level, empty when the hierarchy has one entry; for the
\* empty hierarchy section_title is "Dokument" and parent_context is empty.
C16_TitleIsJoin ==
  /\ ExampleTitles
  /\ \A c \in 1..Len(chunks) :
       LET hierarchy == chunks[c].metadata.hierarchy
       IN /\ chunks[c].section_title =
               IF hierarchy = EmptyDict THEN "Dokument" ELSE JoinedTitles(hierarchy)
          /\ chunks[c].metadata.parent_context = JoinedParents(hierarchy)
          /\ Cardinality(DOMAIN hierarchy) <= 1 => chunks[c].metadata.parent_context = ""

\* a document gave a chunk under a three-level hierarchy and one under a
\* one-level hierarchy
C16_Witness ==
  /\ pc = "done"
  /\ \E c \in 1..Len(chunks) :
       /\ DOMAIN chunks[c].metadata.hierarchy = {0, 1, 2}
       /\ chunks[c].metadata.parent_context # ""
  /\ \E c \in 1..Len(chunks) :
       /\ DOMAIN chunks[c].metadata.hierarchy = {0}
       /\ chunks[c].metadata.parent_context = ""

\* C17: the k-th chunk emitted for a document has chunk_index k, counted
\* from 0: the indices are exactly 0..n-1 in emission order, the counter is
\* not reset at a page boundary, a block skipped for blank content consumes
\* no index, and chunks are emitted by ascending page number.
C17_ChunkIndexCounts ==
  /\ chunk_index = Len(chunks)
  /\ \A k \in 1..Len(chunks) : chunks[k].chunk_index = k - 1
  /\ \A k \in 1..(Len(chunks) - 1) :
       chunks[k].metadata.page_number <= chunks[k + 1].metadata.page_number

\* page 1 gave a chunk and then a blank header-only block, which was
\* skipped; page 2 gave the chunk with index 1
C17_Witness ==
  /\ pc = "done"
  /\ DOMAIN pages = {1, 2}
  /\ Len(pages[1]) = 2
  /\ IsHeader(pages[1][2])
  /\ pages[1][2].text = " "
  /\ Len(chunks) = 2
  /\ chunks[1].metadata.page_number = 1
  /\ chunks[2].metadata.page_number = 2
  /\ chunks[2].chunk_index = 1

\* the block gives a chunk
NotBlank(sec) == ~IsBlank(sec)

RECURSIVE ChunkContents(_, _)
\* the contents of the non-blank blocks of the pages of a list, in order
ChunkContents(pgs, order) ==
  IF order = << >> THEN << >>
  ELSE LET secs == SelectSeq(GroupItemsBySection(pgs[Head(order)], Head(order)), NotBlank)
       IN [s \in 1..Len(secs) |-> secs[s].content] \o ChunkContents(pgs, Tail(order))

\* C18: when the context annotator fails for a block, the block's generated
\* context is the empty string and the chunk is built all the same (its
\* context holds at most the parent line); at the end the chunks are, in
\* number and content, the non-blank blocks of all pages, whatever the
\* annotator did.
C18_AnnotatorFailureKeepsChunks ==
  /\ \A k \in 1..Len(chunks) :
       chunks[k].annotator = "raise" =>
         /\ chunks[k].section_context = ""
         /\ chunks[k].metadata.context =
              IF chunks[k].metadata.parent_context # ""
              THEN "Rozdzial nadrzedny: " \o chunks[k].metadata.parent_context \o "\n"
              ELSE ""
  /\ pc = "done" =>
       [k \in 1..Len(chunks) |-> chunks[k].content]
         = ChunkContents(pages, SortedSeq(DOMAIN pages))

\* the annotator failed for the first of three blocks and answered for the
\* third; all three chunks were built
C18_Witness ==
  /\ pc = "done"
  /\ Len(chunks) = 3
  /\ chunks[1].annotator = "raise"
  /\ chunks[2].annotator = "raise"
  /\ chunks[2].metadata.parent_context # ""
  /\ chunks[3].annotator = "answer"
  /\ chunks[3].section_context = LlmAnswer

\* C19: in upsert_chunks the keywords of every chunk are generated from the
\* chunk's raw content, never from the context-prefixed text, and the
\* document handed to the store is "Context: {context}\n\nContent: {content}"
\* when the chunk's metadata context is non-empty and the raw content
\* otherwise.
C19_KeywordsFromRawContent ==
  /\ \A k \in 1..Len(up.documents) :
       LET chunk == up.chunks[k]
       IN /\ up.documents[k] =
               IF chunk.context # ""
               THEN "Context: " \o chunk.context \o "\n\nContent: " \o chunk.content
               ELSE chunk.content
          /\ up.metadata[k].keywords =
               IF chunk.content \in WhitespaceTexts \/ up.outcomes[k] = "raise"
               THEN << >> ELSE <<"kw(" \o chunk.content \o ")">>
  /\ \A a \in 1..Len(up.adds) :
       /\ up.adds[a].documents = up.documents
       /\ up.adds[a].metadata = up.metadata

\* a batch of a chunk with a context and one without was handed to the
\* store, the keyword model having answered for the first
C19_Witness ==
  /\ up.pc = "returned"
  /\ Len(up.adds) = 1
  /\ Len(up.chunks) = 2
  /\ up.chunks[1].context # ""
  /\ up.chunks[1].content = "a"
  /\ up.outcomes[1] = "answer"
  /\ up.metadata[1].keywords # << >>
  /\ up.chunks[2].context = ""
  /\ up.adds[1].documents[2] = up.chunks[2].content

\* one store write at most, holding every chunk and issued after the last
\* one was prepared; whatever raised inside the call is raised to the caller,
\* and a call that returns has written nothing (no chunks) or the whole batch
OneWriteOrRaise ==
  /\ Len(up.adds) <= 1
  /\ \A a \in 1..Len(up.adds) :
       /\ up.chunk_idx = Len(up.chunks)
       /\ Len(up.adds[a].documents) = Len(up.chunks)
  /\ up.failed => (up.pc = "raised" /\ up.error # << >>)
  /\ up.pc = "returned" =>
       IF up.chunks = << >> THEN up.adds = << >> /\ up.stored = << >>
       ELSE /\ Len(up.adds) = 1
            /\ up.stored = up.adds[1].documents
            /\ Len(up.stored) = Len(up.chunks)

\* C20 (as stated): upsert_chunks issues at most one store write per call,
\* with all the chunks and after all are prepared; a failure in preparation
\* or in the write is re-raised to the caller with the count of chunks
\* attempted, so no call returns normally after a partial write.
C20_OneWriteOrRaiseWithCount ==
  /\ OneWriteOrRaise
  /\ up.pc = "raised" => up.error[1].count = <<Len(up.chunks)>>

\* C20 (amended): upsert_chunks issues at most one store write per call,
\* with all the chunks and after all are prepared; a failure in preparation
\* or in the write is re-raised to the caller as it is, carrying no count of
\* chunks, so no call returns normally after a partial write.
C20_OneWriteOrRaiseAsIs ==
  /\ OneWriteOrRaise
  /\ up.pc = "raised" =>
       /\ up.error[1].source \in {"generate_keywords", "client.add"}
       /\ up.error[1].count = << >>

\* the write of a batch of two chunks failed after the store had kept the
\* first one, and the call raised
C20_Witness ==
  /\ up.pc = "raised"
  /\ up.error[1].source = "client.add"
  /\ Len(up.chunks) = 2
  /\ Len(up.adds) = 1
  /\ Len(up.stored) = 1

\* C21: every chunk of a call gives one record under an id of its own (ids,
\* documents and metadata grow together to the length of the chunk list and
\* all are handed to the store); an id is never one the collection already
\* held, so a record found by the call is left as it was, and upserting the
\* same chunks again adds as many records with the same content and section.
C21_FreshRecordPerChunk ==
  /\ Len(up.ids) = up.chunk_idx
  /\ Len(up.documents) = up.chunk_idx
  /\ Len(up.metadata) = up.chunk_idx
  /\ \A i \in 1..Len(up.ids) : \A j \in 1..Len(up.ids) :
       i # j => up.ids[i] # up.ids[j]
  /\ \A i \in 1..Len(up.ids) : up.ids[i] \notin DOMAIN up.earlier
  /\ \A id \in DOMAIN up.earlier :
       id \in DOMAIN up.points /\ up.points[id] = up.earlier[id]
  /\ \A a \in 1..Len(up.adds) :
       /\ Len(up.adds[a].ids) = Len(up.chunks)
       /\ Len(up.adds[a].documents) = Len(up.chunks)
       /\ Len(up.adds[a].metadata) = Len(up.chunks)
  /\ (up.pc = "returned" /\ up.chunks # << >>) =>
       /\ Cardinality(DOMAIN up.points)
            = Cardinality(DOMAIN up.earlier) + Len(up.chunks)
       /\ \A k \in 1..Len(up.chunks) :
            /\ up.points[up.ids[k]].document
                 = CombinedContent(up.chunks[k].context, up.chunks[k].content)
            /\ up.points[up.ids[k]].metadata.section = up.chunks[k].section_title

\* the same two chunks were upserted twice: the collection holds four
\* records, the two of the first call unchanged
C21_Witness ==
  /\ up.pc = "returned"
  /\ up.calls = 2
  /\ Len(up.chunks) = 2
  /\ Cardinality(DOMAIN up.earlier) = 2
  /\ Cardinality(DOMAIN up.points) = 4
  /\ \E old \in DOMAIN up.earlier :
       /\ old # up.ids[1]
       /\ up.points[old].document = up.points[up.ids[1]].document
       /\ up.points[old].metadata.section = up.points[up.ids[1]].metadata.section

\* the ids of a list of scored candidates
IdsOf(scored) == {scored[i].hit.id : i \in 1..Len(scored)}

\* C22: hybrid_search asks the store for exactly 2 x limit candidates; the
\* hits it renders are the first `limit` entries of the candidates sorted by
\* descending final_score: at most `limit` are kept, all are kept when there
\* are no more than `limit`, and no dropped candidate has a final_score
\* strictly greater than a kept one.
C22_TopLimitByFinalScore ==
  (hs.called /\ ~hs.store_raised) =>
    /\ hs.requested = 2 * hs.limit
    /\ Len(hs.search_result) <= hs.requested
    /\ IdsOf(hs.scored_results) = {hs.search_result[i].id : i \in 1..Len(hs.search_result)}
    /\ Len(hs.scored_results) = Len(hs.search_result)
    /\ \A i \in 1..(Len(hs.scored_results) - 1) :
         hs.scored_results[i].final_score >= hs.scored_results[i + 1].final_score
    /\ Len(hs.top_results) = Min(hs.limit, Len(hs.search_result))
    /\ \A i \in 1..Len(hs.top_results) : hs.top_results[i] = hs.scored_results[i]
    /\ \A k \in 1..Len(hs.top_results) :
         \A j \in (Len(hs.top_results) + 1)..Len(hs.scored_results) :
           hs.scored_results[j].final_score <= hs.top_results[k].final_score
    /\ hs.result = Render(hs.top_results)

\* with limit 1 the store returned two candidates; the one it ranked second
\* got the greater final score and is the one kept
C22_Witness ==
  /\ hs.called
  /\ ~hs.store_raised
  /\ hs.limit = 1
  /\ Len(hs.search_result) = 2
  /\ Len(hs.top_results) = 1
  /\ hs.top_results[1].hit.id = hs.search_result[2].id
  /\ hs.top_results[1].final_score > hs.scored_results[2].final_score

\* the file ids of a list
FileIdSet(file_ids) == {file_ids[k] : k \in 1..Len(file_ids)}

\* C23: when file_ids is non-empty the query carries a filter on exactly
\* these ids and every candidate, hence every hit of the output, has a
\* file_id among them, whatever the other files' records would have scored;
\* when file_ids is empty (or None) the query carries no filter and the
\* candidates are drawn from the whole collection.
C23_OnlyRequestedFiles ==
  (hs.called /\ ~hs.store_raised) =>
    IF hs.file_ids # << >>
    THEN /\ hs.query_filter = <<hs.file_ids>>
         /\ \A i \in 1..Len(hs.search_result) :
              hs.search_result[i].metadata.file_id \in FileIdSet(hs.file_ids)
         /\ \A i \in 1..Len(hs.top_results) :
              hs.top_results[i].hit.metadata.file_id \in FileIdSet(hs.file_ids)
    ELSE /\ hs.query_filter = << >>
         /\ Len(hs.search_result) = Min(hs.requested, Len(collection))

\* the collection holds a record of f1 and one of f2 whose keywords match
\* the query; restricted to f1, the search returns the record of f1 alone
C23_Witness ==
  /\ hs.called
  /\ ~hs.store_raised
  /\ hs.file_ids = <<"f1">>
  /\ hs.keyword_boost > 0
  /\ Len(collection) = 2
  /\ \E i \in 1..2 :
       /\ collection[i].file_id = "f2"
       /\ LowerSet(hs.query) \cap LowerSet(collection[i].keywords) # {}
  /\ Len(hs.top_results) = 1
  /\ hs.top_results[1].hit.metadata.file_id = "f1"
  /\ hs.top_results[1].keyword_overlap = 0

\* C24: an exception raised inside hybrid_search, in the store query, the
\* scoring or the rendering, does not leave the call: the call returns the
\* empty string; chat_endpoint then builds the 'no documents found' messages
\* and calls the language model, and the request fails only if that call does.
C24_SearchErrorGivesNoContext ==
  (hs.called /\ hs.store_raised) =>
    /\ ~hs.raised
    /\ hs.result = ""
    /\ chat.handled =>
         /\ chat.context = ""
         /\ chat.branch = "no_documents"
         /\ chat.llm_called
         /\ chat.llm_ok => chat.status = 200

\* the scoring raised on what a non-empty collection returned; the request
\* was answered with the 'no documents found' messages
C24_Witness ==
  /\ hs.called
  /\ hs.store_raised
  /\ hs.raised_in = "scoring"
  /\ collection # << >>
  /\ chat.handled
  /\ chat.searched
  /\ chat.branch = "no_documents"
  /\ chat.status = 200

\* C25: with an empty query string hybrid_search runs without error, every
\* hit has overlap counts 0 and a final score equal to its base score, and
\* the hits kept are the first `limit` candidates in the order the store
\* ranked them.
C25_EmptyQueryKeepsStoreOrder ==
  (hs.called /\ ~hs.store_raised /\ hs.query = << >>) =>
    /\ ~hs.raised
    /\ \A i \in 1..Len(hs.scored_results) :
         /\ hs.scored_results[i].keyword_overlap = 0
         /\ hs.scored_results[i].context_overlap = 0
         /\ hs.scored_results[i].final_score = 2 * hs.scored_results[i].hit.score
    /\ Len(hs.top_results) = Min(hs.limit, Len(hs.search_result))
    /\ \A i \in 1..Len(hs.top_results) : hs.top_results[i].hit = hs.search_result[i]

\* an empty query with a positive boost got two candidates of equal score
\* that carry keywords; the one the store ranked first is the one kept
C25_Witness ==
  /\ hs.called
  /\ ~hs.store_raised
  /\ hs.query = << >>
  /\ hs.keyword_boost > 0
  /\ hs.limit = 1
  /\ Len(hs.search_result) = 2
  /\ hs.search_result[1].score = hs.search_result[2].score
  /\ hs.search_result[1].metadata.keywords # << >>
  /\ hs.search_result[1].metadata.keywords # hs.search_result[2].metadata.keywords
  /\ hs.top_results[1].hit = hs.search_result[1]

\* C26: a conversion or processing error of one file stays with that file:
\* its entry has status 'failed' and an error message, and the job goes on;
\* the entries are those of the input files in input order, one each, all of
\* them present once the job has returned.
C26_FileErrorIsolated ==
  job_pc # "idle" =>
    /\ Len(results.files) + Len(todo) = Len(saved_file_paths)
    /\ \A i \in 1..Len(results.files) :
         /\ results.files[i].filename = saved_file_paths[i]
         /\ results.files[i].raised =>
              /\ results.files[i].status = "failed"
              /\ results.files[i].error # << >>
              /\ results.files[i].chunks = << >>
    /\ job_pc = "returned" => Len(results.files) = Len(saved_file_paths)

\* the first of two files failed in the conversion, the second was converted
\* into chunks, and the job returned with both entries
C26_Witness ==
  /\ job_pc = "returned"
  /\ Len(saved_file_paths) = 2
  /\ Len(results.files) = 2
  /\ results.files[1].raised
  /\ results.files[1].status = "failed"
  /\ results.files[2].status = "completed"
  /\ results.files[2].chunks # << >>

RECURSIVE CompletedCount(_)
\* the number of entries with status 'completed'
CompletedCount(files) ==
  IF files = << >> THEN 0
  ELSE (IF Head(files).status = "completed" THEN 1 ELSE 0) + CompletedCount(Tail(files))

RECURSIVE CompletedChunks(_)
\* the chunks of the entries with status 'completed'
CompletedChunks(files) ==
  IF files = << >> THEN 0
  ELSE (IF Head(files).status = "completed" THEN Len(Head(files).chunks) ELSE 0)
       + CompletedChunks(Tail(files))

\* C27: when the store fails for a converted file, the entry appended for
\* the file keeps status 'completed' and the file's chunk list and carries
\* the note that it was processed but the store failed; files_processed and
\* total_chunks count the file, and the job goes on with the next file.
C27_StoreFailureKeepsFile ==
  [][(job_pc = "scheduled" /\ file_result # << >>
      /\ Len(results'.files) = Len(results.files) + 1) =>
       LET e == results'.files[Len(results'.files)]
       IN e.store_raised =>
            /\ e.status = "completed"
            /\ e.chunks = file_result[1].chunks
            /\ e.error = <<"Processed but vector store failed">>
            /\ results'.files_processed = CompletedCount(results'.files)
            /\ results'.total_chunks = CompletedChunks(results'.files)
            /\ job_pc' = "scheduled"
            /\ todo' = Tail(todo)]_vars

\* the store failed for the first of two files, which had chunks; the second
\* file was processed and the job returned counting both
C27_Witness ==
  /\ job_pc = "returned"
  /\ Len(results.files) = 2
  /\ results.files[1].store_raised
  /\ results.files[1].status = "completed"
  /\ results.files[1].chunks # << >>
  /\ results.files[2].status = "completed"
  /\ ~results.files[2].store_raised
  /\ results.files_processed = 2

\* the counters agree with the entries, and what is persisted holds no
\* entry in status 'processing'
CountersAgree ==
  /\ results.files_processed = CompletedCount(results.files)
  /\ results.total_chunks = CompletedChunks(results.files)
  /\ \A f \in 1..Len(results_file) : \A i \in 1..Len(results_file[f].files) :
       results_file[f].files[i].status # "processing"

\* C28 (as stated): at every point of the job loop files_processed is the
\* number of entries with status 'completed' and total_chunks the sum of
\* their chunk counts; no persisted entry has status 'processing'.
C28_CountersAgreeEverywhere == CountersAgree

\* C28 (amended): at the end of every iteration of the job loop, and so when
\* the results are persisted, files_processed is the number of entries with
\* status 'completed' and total_chunks the sum of their chunk counts; no
\* persisted entry has status 'processing'. (Inside an iteration a converted
\* file is counted before its entry is appended.)
C28_CountersAgreeBetweenFiles ==
  file_result = << >> => CountersAgree

\* the results of a failed and a converted file were persisted
C28_Witness ==
  /\ job_pc = "returned"
  /\ results_file # << >>
  /\ Len(results_file[1].files) = 2
  /\ results_file[1].files[1].status = "failed"
  /\ results_file[1].files[2].status = "completed"
  /\ results_file[1].files_processed = 1
  /\ results_file[1].total_chunks = 2

\* the outcomes of the requests made before the last one
EarlierOutcomes == {ol.outcomes[i] : i \in 1..(Len(ol.outcomes) - 1)}

\* C29: _invoke_ollama makes at most retries + 1 requests; it returns on the
\* first success without a further request; it goes round again after a
\* connection error, a timeout or another exception only while attempts
\* remain; an HTTP error ends the loop at once; and when no attempt succeeded
\* it raises an exception that carries the last recorded error.
C29_BoundedRetries ==
  /\ ol.requests = Len(ol.outcomes)
  /\ ol.requests <= ol.retries + 1
  /\ EarlierOutcomes \subseteq {"connection", "timeout", "other"}
  /\ ol.pc = "loop" =>
       /\ ol.requests = ol.attempt
       /\ ol.attempt <= ol.retries
       /\ ol.sleeps = ol.requests
  /\ ol.pc = "returned" =>
       /\ ol.requests >= 1
       /\ ol.outcomes[ol.requests] = "ok"
       /\ ol.result # << >>
       /\ ol.error = << >>
  /\ ol.pc = "raised" =>
       /\ ol.requests >= 1
       /\ ol.outcomes[ol.requests] # "ok"
       /\ ol.outcomes[ol.requests] # "http" => ol.requests = ol.retries + 1
       /\ ol.result = << >>
       /\ ol.error = ol.last_error
       /\ ol.error =
            <<LastError(ol.outcomes[ol.requests], ol.requests - 1)>>
  /\ (ol.requests >= 1 /\ ol.outcomes[ol.requests] \in {"ok", "http"}) =>
       ol.pc \in {"returned", "raised"}

\* an HTTP error on the second of three allowed attempts ended the call
C29_Witness ==
  /\ ol.pc = "raised"
  /\ ol.retries = 2
  /\ ol.outcomes = <<"timeout", "http">>
  /\ ol.error = <<LastError("http", 1)>>

\* C30: save_file_to_staging publishes atomically: a file exists at the final
\* staging path only if the whole upload was written to the temp file and
\* its size did not exceed the limit; when the upload exceeds the limit or a
\* read, write, sync or rename error occurs the call raises, no file exists
\* at the final path and the temp file has been removed.
C30_AtomicPublish ==
  /\ st.final # << >> =>
       /\ st.pc = "returned"
       /\ st.final = <<st.total>>
       /\ st.total <= MAX_FILE_SIZE_BYTES
  /\ st.pc = "returned" => st.final # << >> /\ st.tmp = << >>
  /\ st.pc = "raised" => st.final = << >> /\ st.tmp = << >>
  /\ st.io_error => st.pc = "raised"
  /\ (st.pc \in {"publish", "returned"}) => st.total <= MAX_FILE_SIZE_BYTES
  /\ (st.pc = "raised" /\ ~st.io_error) =>
       /\ st.total > MAX_FILE_SIZE_BYTES
       /\ st.size = MAX_FILE_SIZE_BYTES + CHUNK_SIZE
       /\ st.status_code = 413

\* an upload one chunk over the limit was rejected after the limit was read
C30_Witness ==
  /\ st.pc = "raised"
  /\ st.status_code = 413
  /\ st.total = MAX_FILE_SIZE_BYTES + 1
  /\ st.size = MAX_FILE_SIZE_BYTES + 1
  /\ st.tmp = << >>
  /\ st.final = << >>

====
